---- MODULE Spec2Model ----
(***************************************************************************)
(* Booking core of GameNest: BookingService (createBooking,                *)
(* requestReschedule, updateBooking, expirePastBookings, isExpireBooking)  *)
(* over the Booking collection, the service catalogue and the clock.       *)
(*                                                                         *)
(* Representation.  A date string "YYYY-MM-DD" is a day number; a time     *)
(* string "HH:MM" is the pair <<HH, MM>>, and <<H, MM, Unpadded>> is the   *)
(* string written without the leading zero of the hour ("9:30"); an        *)
(* instant (a moment, a JS Date) is a number of minutes in UTC.  Numbers   *)
(* that the code keeps as hours or as money are kept in sixtieths          *)
(* (durationHours 0.5 is 30, a price of 100 is 6000), so that minutes / 60 *)
(* stays exact.                                                            *)
(***************************************************************************)
EXTENDS Integers, Sequences, FiniteSets, TLC

VARIABLES
    bookings,   \* the Booking collection: bookings[i] is the document with _id i
    now,        \* the clock, an instant
    last,       \* the call that has just run to completion and its outcome,
                \* until the response is returned
    calls       \* the createBooking calls in flight when requests interleave:
                \* calls[p] is where call p stands

vars == <<bookings, now, last, calls>>

-----------------------------------------------------------------------------
(* Bounds of the model *)

\* documents in the collection when every user of the platform acts
MaxBookings == 2
\* documents in the collection in the reschedule scenarios
MaxHeldBookings == 3
\* createBooking calls that interleave
MaxCalls == 2
\* requestReschedule calls in flight when the call is followed await by await
MaxSagaCalls == 1

-----------------------------------------------------------------------------
(* BookingStatus, Role *)

Pending == "pending"
Confirmed == "confirmed"
CancelledByCustomer == "cancelled_by_customer"
CancelledByClub == "cancelled_by_club"
Completed == "completed"
NoShow == "no_show"
Rescheduled == "rescheduled"
CancelledRescheduled == "cancelled_rescheduled"
ReschedulePending == "reschedule_pending"
RescheduleRequested == "reschedule_requested"
Rejected == "rejected"
Expired == "expired"

BookingStatus ==
    { Pending, Confirmed, CancelledByCustomer, CancelledByClub, Completed, NoShow,
      Rescheduled, CancelledRescheduled, ReschedulePending, RescheduleRequested,
      Rejected, Expired }

RoleUser == "user"
RoleOwner == "owner"
RoleAdmin == "admin"

-----------------------------------------------------------------------------
(* Clock and timezone: moment.tz(..., 'Asia/Kolkata') *)

MinutesPerHour == 60
MinutesPerDay == 24 * MinutesPerHour
\* Asia/Kolkata is UTC+05:30
TzOffsetMinutes == 330

WeekDays == <<"Mon", "Tue", "Wed", "Thu", "Fri", "Sat", "Sun">>

\* moment.format('ddd') of a date; day 0 is a Monday
DayOfWeek(date) == WeekDays[(date % 7) + 1]

\* how a time string is written when the hour has no leading zero
Unpadded == "H:mm"

\* moment.isValid() of a string parsed with 'HH:mm': the parse is not strict,
\* so the hour may be written with one digit
IsValidTime(t) == t[1] \in 0..23 /\ t[2] \in 0..59

MinutesOf(t) == t[1] * MinutesPerHour + t[2]

\* moment.tz(`${date} ${time}`, 'YYYY-MM-DD HH:mm', APP_TIMEZONE): the instant
MomentTz(date, t) == date * MinutesPerDay + MinutesOf(t) - TzOffsetMinutes

\* moment.tz(date, 'YYYY-MM-DD', APP_TIMEZONE).toDate(): local midnight
BookingDateOf(date) == MomentTz(date, <<0, 0>>)

\* $dateToString { format: '%Y-%m-%d', date: '$bookingDate', timezone }
DateStringOf(instant) == (instant + TzOffsetMinutes) \div MinutesPerDay

\* the place of ':' in the order of the characters: after the digits '0'..'9'
Colon == 10

\* the characters of a time string, each by its place in that order
CharsOf(t) ==
    IF Len(t) = 3 /\ t[1] < 10
    THEN <<t[1], Colon, t[2] \div 10, t[2] % 10>>
    ELSE <<t[1] \div 10, t[1] % 10, Colon, t[2] \div 10, t[2] % 10>>

\* MongoDB's $lt on two strings: the order of the first character that
\* differs, a proper prefix coming first
StrLt(a, b) ==
    LET x == CharsOf(a)
        y == CharsOf(b)
        common == IF Len(x) < Len(y) THEN Len(x) ELSE Len(y)
    IN  \/ \E i \in 1..common : x[i] < y[i] /\ \A j \in 1..(i - 1) : x[j] = y[j]
        \/ Len(x) < Len(y) /\ \A j \in 1..common : x[j] = y[j]

StrLte(a, b) == a = b \/ StrLt(a, b)

-----------------------------------------------------------------------------
(* The collaborators: users, clubs (SportClub.owner) and the service       *)
(* catalogue (SportService documents, read through sportService.findById)  *)

NoClub == "no_club"
NoBooking == 0
NoNotes == "no_notes"

Users == { "u1", "u2", "o1", "adm" }

\* JwtPayload.roles: every account is created with the role user, creating a
\* club adds the role owner, the admin is seeded as admin and user
RolesOf(user) ==
    CASE user = "adm" -> { RoleAdmin, RoleUser }
      [] user = "o1" -> { RoleUser, RoleOwner }
      [] OTHER -> { RoleUser }

\* SportClub.owner of the populated club
OwnerOf(club) ==
    CASE club = "k1" -> "o1"
      [] club = "k2" -> "o2"
      [] OTHER -> "nobody"

ServiceIds == { "s1", "s2", "sOff", "sNoClub", "sGone" }

\* sportService.findById(serviceId).lean(): the service document, or NoService
NoService == [ exists |-> FALSE ]

FindServiceById(serviceId) ==
    CASE serviceId = "s1" ->
            [ exists |-> TRUE, club |-> "k1", hourlyPrice |-> 100, isActive |-> TRUE,
              availableDays |-> { "Mon" },
              openingTime |-> <<9, 30>>, closingTime |-> <<10, 30>>,
              slotDurationMinutes |-> 30 ]
      [] serviceId = "s2" ->
            [ exists |-> TRUE, club |-> "k2", hourlyPrice |-> 40, isActive |-> TRUE,
              availableDays |-> { "Tue" },
              openingTime |-> <<10, 0>>, closingTime |-> <<10, 30>>,
              slotDurationMinutes |-> 15 ]
      [] serviceId = "sOff" ->
            [ exists |-> TRUE, club |-> "k1", hourlyPrice |-> 100, isActive |-> FALSE,
              availableDays |-> { "Mon", "Tue" },
              openingTime |-> <<9, 30>>, closingTime |-> <<10, 30>>,
              slotDurationMinutes |-> 30 ]
      [] serviceId = "sNoClub" ->
            [ exists |-> TRUE, club |-> NoClub, hourlyPrice |-> 100, isActive |-> TRUE,
              availableDays |-> { "Mon", "Tue" },
              openingTime |-> <<9, 30>>, closingTime |-> <<10, 30>>,
              slotDurationMinutes |-> 30 ]
      [] serviceId = "sHour" ->
            [ exists |-> TRUE, club |-> "k1", hourlyPrice |-> 100, isActive |-> TRUE,
              availableDays |-> { "Mon", "Tue" },
              openingTime |-> <<9, 0>>, closingTime |-> <<10, 30>>,
              slotDurationMinutes |-> 60 ]
      [] OTHER -> NoService

-----------------------------------------------------------------------------
(* Errors: the exception class and which throw statement raised it *)

NoError == [ kind |-> "none", at |-> "none" ]
Err(kind, at) == [ kind |-> kind, at |-> at ]

ErrServiceNotFound == Err("NotFound", "service not found or inactive")
ErrNoClub == Err("NotFound", "service without club")
ErrInvalidTime == Err("BadRequest", "invalid start or end time")
ErrNotFuture == Err("BadRequest", "only future slots")
ErrNotAvailable == Err("BadRequest", "service not available at that time")
ErrDuration == Err("BadRequest", "duration not a multiple of the slot")
ErrConflict == Err("Conflict", "slot already booked")
\* Mongoose rejects the document in bookingModel.create or in save (schema
\* validators)
ErrValidation == Err("ValidationError", "booking validation failed")

-----------------------------------------------------------------------------
(* createBooking *)

\* Booking.durationHours { min: 0.5 }, in sixtieths of an hour
MinDurationHours == 30
\* Booking.totalPrice { min: 0 }
MinTotalPrice == 0

\* lines 116-169 with the test that the slot starts in the future (lines
\* 143-147) left out
ValidateRequestPastAllowed(dto, t) ==
    LET service == FindServiceById(dto.serviceId)
        dayOfWeek == DayOfWeek(dto.bookingDate)
        slotStartMoment == MomentTz(dto.bookingDate, dto.startTime)
        slotEndMoment == MomentTz(dto.bookingDate, dto.endTime)
        serviceOpeningMoment == MomentTz(dto.bookingDate, service.openingTime)
        serviceClosingMoment == MomentTz(dto.bookingDate, service.closingTime)
        requestedDurationMinutes == slotEndMoment - slotStartMoment
    IN  IF ~service.exists \/ ~service.isActive THEN ErrServiceNotFound
        ELSE IF service.club = NoClub THEN ErrNoClub
        ELSE IF \/ ~IsValidTime(dto.startTime)
                \/ ~IsValidTime(dto.endTime)
                \/ slotStartMoment >= slotEndMoment THEN ErrInvalidTime
        ELSE IF \/ dayOfWeek \notin service.availableDays
                \/ slotStartMoment < serviceOpeningMoment
                \/ slotEndMoment > serviceClosingMoment THEN ErrNotAvailable
        ELSE IF \/ requestedDurationMinutes % service.slotDurationMinutes # 0
                \/ requestedDurationMinutes = 0 THEN ErrDuration
        ELSE NoError

\* lines 115-169: the checks before any read of the Booking collection;
\* NoError when the request passes them all
ValidateRequest(dto, t) ==
    LET service == FindServiceById(dto.serviceId)
        dayOfWeek == DayOfWeek(dto.bookingDate)
        slotStartMoment == MomentTz(dto.bookingDate, dto.startTime)
        slotEndMoment == MomentTz(dto.bookingDate, dto.endTime)
        serviceOpeningMoment == MomentTz(dto.bookingDate, service.openingTime)
        serviceClosingMoment == MomentTz(dto.bookingDate, service.closingTime)
        requestedDurationMinutes == slotEndMoment - slotStartMoment
    IN  IF ~service.exists \/ ~service.isActive THEN ErrServiceNotFound
        ELSE IF service.club = NoClub THEN ErrNoClub
        ELSE IF \/ ~IsValidTime(dto.startTime)
                \/ ~IsValidTime(dto.endTime)
                \/ slotStartMoment >= slotEndMoment THEN ErrInvalidTime
        ELSE IF slotStartMoment <= t THEN ErrNotFuture
        ELSE IF \/ dayOfWeek \notin service.availableDays
                \/ slotStartMoment < serviceOpeningMoment
                \/ slotEndMoment > serviceClosingMoment THEN ErrNotAvailable
        ELSE IF \/ requestedDurationMinutes % service.slotDurationMinutes # 0
                \/ requestedDurationMinutes = 0 THEN ErrDuration
        ELSE NoError

\* lines 173-183 with a booking on hold still holding its slot:
\* reschedule_requested listed among the statuses of the query
OverlapQueryCountsHeld(store, dto) ==
    { i \in 1..Len(store) :
        /\ store[i].service = dto.serviceId
        /\ store[i].bookingDate = BookingDateOf(dto.bookingDate)
        /\ store[i].status \in { Pending, Confirmed, RescheduleRequested }
        /\ \/ StrLt(store[i].startTime, dto.endTime) /\ StrLt(dto.startTime, store[i].endTime)
           \/ StrLte(store[i].startTime, dto.startTime) /\ StrLte(dto.endTime, store[i].endTime) }

\* lines 173-183: the documents matched by the overlap query
OverlapQuery(store, dto) ==
    { i \in 1..Len(store) :
        /\ store[i].service = dto.serviceId
        /\ store[i].bookingDate = BookingDateOf(dto.bookingDate)
        /\ store[i].status \in { Pending, Confirmed }
        /\ \/ StrLt(store[i].startTime, dto.endTime) /\ StrLt(dto.startTime, store[i].endTime)
           \/ StrLte(store[i].startTime, dto.startTime) /\ StrLte(dto.endTime, store[i].endTime) }

\* lines 190-207 with the price of one hour charged whatever the duration
\* (line 191 without the multiplication by durationHours)
NewBookingFlatPrice(customerId, dto, initialStatus) ==
    LET service == FindServiceById(dto.serviceId)
        requestedDurationMinutes ==
            MomentTz(dto.bookingDate, dto.endTime) - MomentTz(dto.bookingDate, dto.startTime)
        durationHours == requestedDurationMinutes
    IN  [ customer |-> customerId,
          club |-> service.club,
          service |-> dto.serviceId,
          bookingDate |-> BookingDateOf(dto.bookingDate),
          startTime |-> dto.startTime,
          endTime |-> dto.endTime,
          durationHours |-> durationHours,
          totalPrice |-> service.hourlyPrice * MinutesPerHour,
          status |-> initialStatus,
          paymentStatus |-> "pending",
          notes |-> dto.notes,
          rescheduleOf |-> dto.rescheduleOf ]

\* lines 161-166 and 190-207: the document handed to bookingModel.create
NewBooking(customerId, dto, initialStatus) ==
    LET service == FindServiceById(dto.serviceId)
        requestedDurationMinutes ==
            MomentTz(dto.bookingDate, dto.endTime) - MomentTz(dto.bookingDate, dto.startTime)
        \* requestedDurationMinutes / 60, in sixtieths
        durationHours == requestedDurationMinutes
    IN  [ customer |-> customerId,
          club |-> service.club,
          service |-> dto.serviceId,
          bookingDate |-> BookingDateOf(dto.bookingDate),
          startTime |-> dto.startTime,
          endTime |-> dto.endTime,
          durationHours |-> durationHours,
          totalPrice |-> service.hourlyPrice * durationHours,
          status |-> initialStatus,
          paymentStatus |-> "pending",
          notes |-> dto.notes,
          rescheduleOf |-> dto.rescheduleOf ]

\* Booking.startTime, Booking.endTime { match: /^([01]\d|2[0-3]):([0-5]\d)$/ }
MatchesTimeFormat(t) == Len(t) = 2 /\ t[1] \in 0..23 /\ t[2] \in 0..59

\* the schema validators that bookingModel.create runs on the document
SchemaValid(doc) ==
    /\ MatchesTimeFormat(doc.startTime)
    /\ MatchesTimeFormat(doc.endTime)
    /\ doc.durationHours >= MinDurationHours
    /\ doc.totalPrice >= MinTotalPrice * MinutesPerHour
    /\ doc.status \in BookingStatus

\* createBooking run to completion on `store` at time t:
\* the error (NoError on success), the collection afterwards, the _id of
\* the created document and the events emitted, in order
CreateOutcome(store, customerId, dto, initialStatus, t) ==
    LET failed(e) == [ err |-> e, store |-> store, id |-> NoBooking, events |-> <<>> ]
        invalid == ValidateRequest(dto, t)
        doc == NewBooking(customerId, dto, initialStatus)
        stored == Append(store, doc)
    IN  IF invalid # NoError THEN failed(invalid)
        ELSE IF OverlapQuery(store, dto) # {} THEN failed(ErrConflict)
        ELSE IF ~SchemaValid(doc) THEN failed(ErrValidation)
        ELSE [ err |-> NoError, store |-> stored, id |-> Len(stored),
               events |-> << [ name |-> "booking.created", booking |-> Len(stored),
                               status |-> doc.status ] >> ]

-----------------------------------------------------------------------------
(* isExpireBooking, expirePastBookings *)

\* lines 555-567 and 588-600: $dateFromString of the booking's date and
\* endTime in the operating timezone is at or before now
EndInstantPassed(doc, t) ==
    MomentTz(DateStringOf(doc.bookingDate), doc.endTime) <= t

\* lines 579-606 with the $expr of the query left out: the booking is found
\* by its _id whatever its end
IsExpireBookingFoundById(store, bookingId, t) ==
    bookingId \in 1..Len(store)

\* lines 579-606
IsExpireBooking(store, bookingId, t) ==
    /\ bookingId \in 1..Len(store)
    /\ EndInstantPassed(store[bookingId], t)

\* lines 548-574 with $lt in place of $lte (line 556): a booking that ends
\* at this very instant is left
ExpirePastBookingsOutcomeStrictlyBefore(store, t) ==
    [ i \in 1..Len(store) |->
        IF /\ store[i].status \in { Pending, Confirmed }
           /\ MomentTz(DateStringOf(store[i].bookingDate), store[i].endTime) < t
        THEN [ store[i] EXCEPT !.status = Expired ]
        ELSE store[i] ]

\* lines 548-574 with updateOne in place of updateMany (line 552): the
\* first document the filter matches is the only one updated
ExpirePastBookingsOutcomeFirstOnly(store, t) ==
    LET matched == { i \in 1..Len(store) :
                        /\ store[i].status \in { Pending, Confirmed }
                        /\ EndInstantPassed(store[i], t) }
    IN  [ i \in 1..Len(store) |->
            IF i \in matched /\ \A j \in matched : i <= j
            THEN [ store[i] EXCEPT !.status = Expired ]
            ELSE store[i] ]

\* lines 548-574: the collection after the updateMany
ExpirePastBookingsOutcome(store, t) ==
    [ i \in 1..Len(store) |->
        IF store[i].status \in { Pending, Confirmed } /\ EndInstantPassed(store[i], t)
        THEN [ store[i] EXCEPT !.status = Expired ]
        ELSE store[i] ]

-----------------------------------------------------------------------------
(* updateBooking *)

NoStatus == "no_status"

ErrBookingNotFound == Err("NotFound", "booking not found")
ErrCustomerStatus == Err("Forbidden", "customer may not set this status")
ErrNotExpired == Err("Forbidden", "booking has not expired")
ErrOwnerStatus == Err("Forbidden", "owner may not set this status")
ErrNoPermissionStatus == Err("Forbidden", "no permission to update the status")
ErrNoPermissionNotes == Err("Forbidden", "no permission to update the notes")
ErrNoUpdateData == Err("BadRequest", "no update data")

\* lines 311-373 with the customer's cancellation granted whatever the status
\* of the booking (the condition of line 315 left out)
StatusDecisionCancelAnyStatus(status, newStatus, isCustomer, isClubOwner, isAdmin, isExpired) ==
    LET set(st) == [ err |-> NoError, status |-> st, original |-> NoStatus ]
        keep == [ err |-> NoError, status |-> status, original |-> NoStatus ]
        fail(e) == [ err |-> e, status |-> status, original |-> NoStatus ]
    IN  IF isCustomer THEN
            IF newStatus = CancelledByCustomer THEN set(newStatus)
            ELSE IF status # newStatus THEN fail(ErrCustomerStatus)
            ELSE keep
        ELSE IF isClubOwner \/ isAdmin THEN
            IF newStatus = Expired THEN
                IF isExpired THEN set(newStatus) ELSE fail(ErrNotExpired)
            ELSE IF newStatus = Confirmed /\ status = Pending THEN set(newStatus)
            ELSE IF newStatus = CancelledByClub /\ status \in { Pending, Confirmed }
            THEN set(newStatus)
            ELSE IF newStatus = Confirmed /\ status = ReschedulePending
            THEN [ err |-> NoError, status |-> newStatus, original |-> CancelledRescheduled ]
            ELSE IF newStatus = Rejected /\ status = ReschedulePending
            THEN [ err |-> NoError, status |-> newStatus, original |-> Confirmed ]
            ELSE IF newStatus = Completed /\ status = Confirmed THEN set(newStatus)
            ELSE IF newStatus = NoShow /\ status = Confirmed THEN set(newStatus)
            ELSE IF isAdmin THEN set(newStatus)
            ELSE IF status # newStatus THEN fail(ErrOwnerStatus)
            ELSE keep
        ELSE fail(ErrNoPermissionStatus)

\* lines 311-373 with the rejection of a reschedule leaving the original
\* booking on hold (the write of lines 352-354 left out)
StatusDecisionRejectKeepsHold(status, newStatus, isCustomer, isClubOwner, isAdmin, isExpired) ==
    LET set(st) == [ err |-> NoError, status |-> st, original |-> NoStatus ]
        keep == [ err |-> NoError, status |-> status, original |-> NoStatus ]
        fail(e) == [ err |-> e, status |-> status, original |-> NoStatus ]
    IN  IF isCustomer THEN
            IF newStatus = CancelledByCustomer /\ status \in { Pending, Confirmed }
            THEN set(newStatus)
            ELSE IF status # newStatus THEN fail(ErrCustomerStatus)
            ELSE keep
        ELSE IF isClubOwner \/ isAdmin THEN
            IF newStatus = Expired THEN
                IF isExpired THEN set(newStatus) ELSE fail(ErrNotExpired)
            ELSE IF newStatus = Confirmed /\ status = Pending THEN set(newStatus)
            ELSE IF newStatus = CancelledByClub /\ status \in { Pending, Confirmed }
            THEN set(newStatus)
            ELSE IF newStatus = Confirmed /\ status = ReschedulePending
            THEN [ err |-> NoError, status |-> newStatus, original |-> CancelledRescheduled ]
            ELSE IF newStatus = Rejected /\ status = ReschedulePending THEN set(newStatus)
            ELSE IF newStatus = Completed /\ status = Confirmed THEN set(newStatus)
            ELSE IF newStatus = NoShow /\ status = Confirmed THEN set(newStatus)
            ELSE IF isAdmin THEN set(newStatus)
            ELSE IF status # newStatus THEN fail(ErrOwnerStatus)
            ELSE keep
        ELSE fail(ErrNoPermissionStatus)

\* lines 311-373 with the admin given no more than the owner of the club
\* (the branch of line 363 left out)
StatusDecisionNoAdminOverride(status, newStatus, isCustomer, isClubOwner, isAdmin, isExpired) ==
    LET set(st) == [ err |-> NoError, status |-> st, original |-> NoStatus ]
        keep == [ err |-> NoError, status |-> status, original |-> NoStatus ]
        fail(e) == [ err |-> e, status |-> status, original |-> NoStatus ]
    IN  IF isCustomer THEN
            IF newStatus = CancelledByCustomer /\ status \in { Pending, Confirmed }
            THEN set(newStatus)
            ELSE IF status # newStatus THEN fail(ErrCustomerStatus)
            ELSE keep
        ELSE IF isClubOwner \/ isAdmin THEN
            IF newStatus = Expired THEN
                IF isExpired THEN set(newStatus) ELSE fail(ErrNotExpired)
            ELSE IF newStatus = Confirmed /\ status = Pending THEN set(newStatus)
            ELSE IF newStatus = CancelledByClub /\ status \in { Pending, Confirmed }
            THEN set(newStatus)
            ELSE IF newStatus = Confirmed /\ status = ReschedulePending
            THEN [ err |-> NoError, status |-> newStatus, original |-> CancelledRescheduled ]
            ELSE IF newStatus = Rejected /\ status = ReschedulePending
            THEN [ err |-> NoError, status |-> newStatus, original |-> Confirmed ]
            ELSE IF newStatus = Completed /\ status = Confirmed THEN set(newStatus)
            ELSE IF newStatus = NoShow /\ status = Confirmed THEN set(newStatus)
            ELSE IF status # newStatus THEN fail(ErrOwnerStatus)
            ELSE keep
        ELSE fail(ErrNoPermissionStatus)

\* lines 311-373: the decision on a requested status.  err: the exception
\* thrown, if any; status: booking.status afterwards; original: the status
\* written to the booking referenced by rescheduleOf, NoStatus for no write
StatusDecision(status, newStatus, isCustomer, isClubOwner, isAdmin, isExpired) ==
    LET set(st) == [ err |-> NoError, status |-> st, original |-> NoStatus ]
        keep == [ err |-> NoError, status |-> status, original |-> NoStatus ]
        fail(e) == [ err |-> e, status |-> status, original |-> NoStatus ]
    IN  IF isCustomer THEN
            IF newStatus = CancelledByCustomer /\ status \in { Pending, Confirmed }
            THEN set(newStatus)
            ELSE IF status # newStatus THEN fail(ErrCustomerStatus)
            ELSE keep
        ELSE IF isClubOwner \/ isAdmin THEN
            IF newStatus = Expired THEN
                IF isExpired THEN set(newStatus) ELSE fail(ErrNotExpired)
            ELSE IF newStatus = Confirmed /\ status = Pending THEN set(newStatus)
            ELSE IF newStatus = CancelledByClub /\ status \in { Pending, Confirmed }
            THEN set(newStatus)
            ELSE IF newStatus = Confirmed /\ status = ReschedulePending
            THEN [ err |-> NoError, status |-> newStatus, original |-> CancelledRescheduled ]
            ELSE IF newStatus = Rejected /\ status = ReschedulePending
            THEN [ err |-> NoError, status |-> newStatus, original |-> Confirmed ]
            ELSE IF newStatus = Completed /\ status = Confirmed THEN set(newStatus)
            ELSE IF newStatus = NoShow /\ status = Confirmed THEN set(newStatus)
            ELSE IF isAdmin THEN set(newStatus)
            ELSE IF status # newStatus THEN fail(ErrOwnerStatus)
            ELSE keep
        ELSE fail(ErrNoPermissionStatus)

\* findByIdAndUpdate with the payment of the booking marked refunded along
\* with the status
FindByIdAndUpdateStatusRefunding(store, id, status) ==
    IF id \in 1..Len(store)
    THEN [ store EXCEPT ![id].status = status, ![id].paymentStatus = "refunded" ]
    ELSE store

\* lines 342-344 and 352-354: bookingModel.findByIdAndUpdate(id, { status })
FindByIdAndUpdateStatus(store, id, status) ==
    IF id \in 1..Len(store) THEN [ store EXCEPT ![id].status = status ] ELSE store

\* updateBooking with the check for an empty request left out (lines 384-387):
\* the booking is saved as it was read
UpdateOutcomeSavesWithoutData(store, bookingId, dto, currentUser, t) ==
    LET failed(e, st) == [ err |-> e, store |-> st, events |-> <<>> ]
        booking == store[bookingId]
        newStatus == dto.status
        isCustomer == booking.customer = currentUser
        isClubOwner == OwnerOf(booking.club) = currentUser
        isAdmin == RoleAdmin \in RolesOf(currentUser)
        decision ==
            IF newStatus # NoStatus
            THEN StatusDecision(booking.status, newStatus, isCustomer, isClubOwner, isAdmin,
                                IsExpireBooking(store, bookingId, t))
            ELSE [ err |-> NoError, status |-> booking.status, original |-> NoStatus ]
        \* the collection after the write to the original, if there is one
        written ==
            IF decision.original # NoStatus /\ booking.rescheduleOf # NoBooking
            THEN FindByIdAndUpdateStatus(store, booking.rescheduleOf, decision.original)
            ELSE store
        saved ==
            [ written EXCEPT ![bookingId].status = decision.status,
                             ![bookingId].notes =
                                 IF dto.notes # NoNotes THEN dto.notes ELSE @ ]
    IN  IF bookingId \notin 1..Len(store) THEN failed(ErrBookingNotFound, store)
        ELSE IF decision.err # NoError THEN failed(decision.err, store)
        ELSE IF dto.notes # NoNotes /\ ~(isCustomer \/ isClubOwner \/ isAdmin)
        THEN failed(ErrNoPermissionNotes, written)
        ELSE IF saved[bookingId].status \notin BookingStatus
        THEN failed(ErrValidation, written)
        ELSE [ err |-> NoError, store |-> saved,
               events |->
                   IF newStatus # NoStatus /\ decision.status = newStatus
                   THEN << [ name |-> "booking.status_updated", booking |-> bookingId,
                             status |-> saved[bookingId].status ] >>
                   ELSE <<>> ]

\* updateBooking with the notes written for any caller (the test at line 376
\* left out)
UpdateOutcomeNotesByAnyone(store, bookingId, dto, currentUser, t) ==
    LET failed(e, st) == [ err |-> e, store |-> st, events |-> <<>> ]
        booking == store[bookingId]
        newStatus == dto.status
        isCustomer == booking.customer = currentUser
        isClubOwner == OwnerOf(booking.club) = currentUser
        isAdmin == RoleAdmin \in RolesOf(currentUser)
        decision ==
            IF newStatus # NoStatus
            THEN StatusDecision(booking.status, newStatus, isCustomer, isClubOwner, isAdmin,
                                IsExpireBooking(store, bookingId, t))
            ELSE [ err |-> NoError, status |-> booking.status, original |-> NoStatus ]
        \* the collection after the write to the original, if there is one
        written ==
            IF decision.original # NoStatus /\ booking.rescheduleOf # NoBooking
            THEN FindByIdAndUpdateStatus(store, booking.rescheduleOf, decision.original)
            ELSE store
        saved ==
            [ written EXCEPT ![bookingId].status = decision.status,
                             ![bookingId].notes =
                                 IF dto.notes # NoNotes THEN dto.notes ELSE @ ]
    IN  IF bookingId \notin 1..Len(store) THEN failed(ErrBookingNotFound, store)
        ELSE IF decision.err # NoError THEN failed(decision.err, store)
        ELSE IF newStatus = NoStatus /\ dto.notes = NoNotes
        THEN failed(ErrNoUpdateData, written)
        ELSE IF saved[bookingId].status \notin BookingStatus
        THEN failed(ErrValidation, written)
        ELSE [ err |-> NoError, store |-> saved,
               events |->
                   IF newStatus # NoStatus /\ decision.status = newStatus
                   THEN << [ name |-> "booking.status_updated", booking |-> bookingId,
                             status |-> saved[bookingId].status ] >>
                   ELSE <<>> ]

\* updateBooking with the booking written without the validators of the
\* schema (line 389)
UpdateOutcomeSaveNotValidated(store, bookingId, dto, currentUser, t) ==
    LET failed(e, st) == [ err |-> e, store |-> st, events |-> <<>> ]
        booking == store[bookingId]
        newStatus == dto.status
        isCustomer == booking.customer = currentUser
        isClubOwner == OwnerOf(booking.club) = currentUser
        isAdmin == RoleAdmin \in RolesOf(currentUser)
        decision ==
            IF newStatus # NoStatus
            THEN StatusDecision(booking.status, newStatus, isCustomer, isClubOwner, isAdmin,
                                IsExpireBooking(store, bookingId, t))
            ELSE [ err |-> NoError, status |-> booking.status, original |-> NoStatus ]
        \* the collection after the write to the original, if there is one
        written ==
            IF decision.original # NoStatus /\ booking.rescheduleOf # NoBooking
            THEN FindByIdAndUpdateStatus(store, booking.rescheduleOf, decision.original)
            ELSE store
        saved ==
            [ written EXCEPT ![bookingId].status = decision.status,
                             ![bookingId].notes =
                                 IF dto.notes # NoNotes THEN dto.notes ELSE @ ]
    IN  IF bookingId \notin 1..Len(store) THEN failed(ErrBookingNotFound, store)
        ELSE IF decision.err # NoError THEN failed(decision.err, store)
        ELSE IF dto.notes # NoNotes /\ ~(isCustomer \/ isClubOwner \/ isAdmin)
        THEN failed(ErrNoPermissionNotes, written)
        ELSE IF newStatus = NoStatus /\ dto.notes = NoNotes
        THEN failed(ErrNoUpdateData, written)
        ELSE [ err |-> NoError, store |-> saved,
               events |->
                   IF newStatus # NoStatus /\ decision.status = newStatus
                   THEN << [ name |-> "booking.status_updated", booking |-> bookingId,
                             status |-> saved[bookingId].status ] >>
                   ELSE <<>> ]

\* updateBooking run to completion on `store` at time t
UpdateOutcome(store, bookingId, dto, currentUser, t) ==
    LET failed(e, st) == [ err |-> e, store |-> st, events |-> <<>> ]
        booking == store[bookingId]
        newStatus == dto.status
        isCustomer == booking.customer = currentUser
        isClubOwner == OwnerOf(booking.club) = currentUser
        isAdmin == RoleAdmin \in RolesOf(currentUser)
        decision ==
            IF newStatus # NoStatus
            THEN StatusDecision(booking.status, newStatus, isCustomer, isClubOwner, isAdmin,
                                IsExpireBooking(store, bookingId, t))
            ELSE [ err |-> NoError, status |-> booking.status, original |-> NoStatus ]
        \* the collection after the write to the original, if there is one
        written ==
            IF decision.original # NoStatus /\ booking.rescheduleOf # NoBooking
            THEN FindByIdAndUpdateStatus(store, booking.rescheduleOf, decision.original)
            ELSE store
        saved ==
            [ written EXCEPT ![bookingId].status = decision.status,
                             ![bookingId].notes =
                                 IF dto.notes # NoNotes THEN dto.notes ELSE @ ]
    IN  IF bookingId \notin 1..Len(store) THEN failed(ErrBookingNotFound, store)
        ELSE IF decision.err # NoError THEN failed(decision.err, store)
        ELSE IF dto.notes # NoNotes /\ ~(isCustomer \/ isClubOwner \/ isAdmin)
        THEN failed(ErrNoPermissionNotes, written)
        ELSE IF newStatus = NoStatus /\ dto.notes = NoNotes
        THEN failed(ErrNoUpdateData, written)
        ELSE IF saved[bookingId].status \notin BookingStatus
        THEN failed(ErrValidation, written)
        ELSE [ err |-> NoError, store |-> saved,
               events |->
                   IF newStatus # NoStatus /\ decision.status = newStatus
                   THEN << [ name |-> "booking.status_updated", booking |-> bookingId,
                             status |-> saved[bookingId].status ] >>
                   ELSE <<>> ]

-----------------------------------------------------------------------------
(* requestReschedule *)

ErrOriginalNotFound == Err("NotFound", "original booking not found")
ErrNotOwnBooking == Err("Forbidden", "not the customer of the booking")
ErrNotReschedulable == Err("BadRequest", "status cannot be rescheduled")

\* requestReschedule with the catch block rethrowing without the rollback of
\* lines 262-263: the original stays on hold
RescheduleOutcomeNoRollback(store, originalBookingId, rescheduleDto, currentUser, t) ==
    LET failed(e, st) == [ err |-> e, store |-> st, id |-> NoBooking, events |-> <<>> ]
        originalBooking == store[originalBookingId]
        held == [ store EXCEPT ![originalBookingId].status = RescheduleRequested ]
        newBookingDto == [ rescheduleDto EXCEPT !.rescheduleOf = originalBookingId ]
        out == CreateOutcome(held, currentUser, newBookingDto, ReschedulePending, t)
    IN  IF originalBookingId \notin 1..Len(store) THEN failed(ErrOriginalNotFound, store)
        ELSE IF originalBooking.customer # currentUser THEN failed(ErrNotOwnBooking, store)
        ELSE IF originalBooking.status \notin { Confirmed, Pending }
        THEN failed(ErrNotReschedulable, store)
        ELSE IF out.err = NoError THEN out
        ELSE failed(out.err, out.store)

\* requestReschedule with the status of the original tested before its
\* customer (lines 245-247 before lines 240-242)
RescheduleOutcomeStatusFirst(store, originalBookingId, rescheduleDto, currentUser, t) ==
    LET failed(e, st) == [ err |-> e, store |-> st, id |-> NoBooking, events |-> <<>> ]
        originalBooking == store[originalBookingId]
        previousStatus == originalBooking.status
        \* lines 250-252
        held == [ store EXCEPT ![originalBookingId].status = RescheduleRequested ]
        newBookingDto == [ rescheduleDto EXCEPT !.rescheduleOf = originalBookingId ]
        out == CreateOutcome(held, currentUser, newBookingDto, ReschedulePending, t)
        \* lines 262-263
        rolledBack == [ out.store EXCEPT ![originalBookingId].status = previousStatus ]
    IN  IF originalBookingId \notin 1..Len(store) THEN failed(ErrOriginalNotFound, store)
        ELSE IF originalBooking.status \notin { Confirmed, Pending }
        THEN failed(ErrNotReschedulable, store)
        ELSE IF originalBooking.customer # currentUser THEN failed(ErrNotOwnBooking, store)
        ELSE IF out.err = NoError THEN out
        ELSE failed(out.err, rolledBack)

\* requestReschedule run to completion on `store` at time t
RescheduleOutcome(store, originalBookingId, rescheduleDto, currentUser, t) ==
    LET failed(e, st) == [ err |-> e, store |-> st, id |-> NoBooking, events |-> <<>> ]
        originalBooking == store[originalBookingId]
        previousStatus == originalBooking.status
        \* lines 250-252
        held == [ store EXCEPT ![originalBookingId].status = RescheduleRequested ]
        newBookingDto == [ rescheduleDto EXCEPT !.rescheduleOf = originalBookingId ]
        out == CreateOutcome(held, currentUser, newBookingDto, ReschedulePending, t)
        \* lines 262-263
        rolledBack == [ out.store EXCEPT ![originalBookingId].status = previousStatus ]
    IN  IF originalBookingId \notin 1..Len(store) THEN failed(ErrOriginalNotFound, store)
        ELSE IF originalBooking.customer # currentUser THEN failed(ErrNotOwnBooking, store)
        ELSE IF originalBooking.status \notin { Confirmed, Pending }
        THEN failed(ErrNotReschedulable, store)
        ELSE IF out.err = NoError THEN out
        ELSE failed(out.err, rolledBack)

-----------------------------------------------------------------------------
(* The requests the model issues *)

Customers == { u \in Users : RoleUser \in RolesOf(u) }

Dates == { 0, 1 }

\* the <<startTime, endTime>> pairs asked for: inside the opening hours of
\* s1, touching and overlapping one another (the second is all of the
\* opening hours of s2); one slot of s2, shorter than a slot of s1; end before
\* start; empty; not a time of day; "9:30" for "09:30"
TimeRanges ==
    { << <<9, 30>>, <<10, 0>> >>, << <<10, 0>>, <<10, 30>> >>, << <<9, 30>>, <<10, 30>> >>,
      << <<10, 0>>, <<10, 15>> >>, << <<10, 30>>, <<10, 0>> >>, << <<10, 0>>, <<10, 0>> >>,
      << <<25, 0>>, <<10, 0>> >>,
      << <<9, 30, Unpadded>>, <<10, 0>> >>, << <<9, 30, Unpadded>>, <<10, 30>> >> }

NotesInputs == { NoNotes }

Dto(serviceId, bookingDate, range, notes, rescheduleOf) ==
    [ serviceId |-> serviceId, bookingDate |-> bookingDate,
      startTime |-> range[1], endTime |-> range[2],
      notes |-> notes, rescheduleOf |-> rescheduleOf ]

CreateDtos ==
    { Dto(s, d, r, n, NoBooking) : s \in ServiceIds, d \in Dates, r \in TimeRanges,
                                   n \in NotesInputs }

\* the new slot of a reschedule is asked on the Monday, on a service that
\* takes bookings
RescheduleDtos == { dto \in CreateDtos : dto.serviceId \in { "s1", "s2" } /\ dto.bookingDate = 0 }

UpdateDtos == [ status : BookingStatus \cup { NoStatus }, notes : NotesInputs ]

\* the instants the clock takes
ClockValues == { MomentTz(0, <<8, 0>>), MomentTz(0, <<10, 0>>) }

-----------------------------------------------------------------------------
(* The state machine: one request at a time, run to completion *)

NoCall == [ op |-> "none" ]

\* booking: the _id the call was about (the created document for
\* createBooking, NoBooking when none was created); a call that succeeded
\* also keeps who made it and the status it asked for
Call(op, booking, out, user, status) ==
    [ op |-> op, booking |-> booking, err |-> out.err, events |-> out.events,
      user |-> IF out.err = NoError THEN user ELSE "-",
      status |-> IF out.err = NoError THEN status ELSE NoStatus ]

NoCalls == [ p \in 1..MaxCalls |-> [ pc |-> "idle" ] ]

Init ==
    /\ bookings = <<>>
    /\ now = MomentTz(0, <<8, 0>>)
    /\ last = NoCall
    /\ calls = NoCalls

\* POST /bookings: BookingController.create -> createBooking(customerId, dto)
CreateBookingBy(users, dtos, maxBookings) ==
    /\ last = NoCall
    /\ \E customerId \in users \cap Customers, dto \in dtos :
        LET out == CreateOutcome(bookings, customerId, dto, Pending, now)
        IN  /\ Len(out.store) <= maxBookings
            /\ bookings' = out.store
            /\ last' = Call("createBooking", out.id, out, customerId, Pending)
    /\ UNCHANGED <<now, calls>>

\* POST /bookings/:id/reschedule -> requestReschedule(id, dto, req.user)
RequestRescheduleWith(users, dtos, maxBookings) ==
    /\ last = NoCall
    /\ \E currentUser \in users \cap Customers, id \in 1..(Len(bookings) + 1),
          dto \in dtos :
        LET out == RescheduleOutcome(bookings, id, dto, currentUser, now)
        IN  /\ Len(out.store) <= maxBookings
            /\ bookings' = out.store
            /\ last' = Call("requestReschedule", id, out, currentUser, ReschedulePending)
    /\ UNCHANGED <<now, calls>>

RequestRescheduleBy(users, maxBookings) ==
    RequestRescheduleWith(users, RescheduleDtos, maxBookings)

\* POST /bookings/:id -> updateBooking(id, dto, req.user)
UpdateBookingWith(users, dtos) ==
    /\ last = NoCall
    /\ \E currentUser \in users, id \in 1..(Len(bookings) + 1), dto \in dtos :
        LET out == UpdateOutcome(bookings, id, dto, currentUser, now)
        IN  /\ bookings' = out.store
            /\ last' = Call("updateBooking", id, out, currentUser, dto.status)
    /\ UNCHANGED <<now, calls>>

UpdateBookingBy(users) == UpdateBookingWith(users, UpdateDtos)

\* the periodic sweep; it answers to no caller, so a second run may follow
\* the first at once.  modified: result.modifiedCount (line 573); run: 2 when
\* the sweep follows a sweep with nothing in between
ExpirePastBookings ==
    /\ last = NoCall \/ last.op = "expirePastBookings"
    /\ bookings' = ExpirePastBookingsOutcome(bookings, now)
    /\ last' = [ op |-> "expirePastBookings", booking |-> NoBooking, err |-> NoError,
                 events |-> <<>>, user |-> "cron", status |-> Expired,
                 modified |-> Cardinality({ i \in 1..Len(bookings) :
                                               bookings'[i] # bookings[i] }),
                 run |-> IF last = NoCall THEN 1 ELSE 2 ]
    /\ UNCHANGED <<now, calls>>

\* time passes
Tick ==
    /\ last = NoCall
    /\ \E t \in ClockValues : t > now /\ now' = t
    /\ UNCHANGED <<bookings, last, calls>>

\* the response (or the exception) reaches the caller
Respond ==
    /\ last # NoCall
    /\ last' = NoCall
    /\ UNCHANGED <<bookings, now, calls>>

\* the callers when every kind of user acts: a customer, the owner of club k1
\* and an admin; the customer and the owner are the ones who book
Callers == { "u1", "o1", "adm" }
Bookers == { "u1", "o1" }

CreateBooking == CreateBookingBy(Bookers, CreateDtos, MaxBookings)
RequestReschedule == RequestRescheduleBy(Bookers, MaxBookings)
UpdateBooking == UpdateBookingBy(Callers)

Next ==
    \/ CreateBooking
    \/ RequestReschedule
    \/ UpdateBooking
    \/ ExpirePastBookings
    \/ Tick
    \/ Respond

Spec == Init /\ [][Next]_vars

-----------------------------------------------------------------------------
(* The reschedule scenarios: two customers book and ask to reschedule      *)
(* slots of the Monday, the owner of the club decides; no admin, a third   *)
(* booking fits                                                            *)

HeldCustomers == { "u1", "u2" }

NextHeld ==
    \/ CreateBookingBy(HeldCustomers, RescheduleDtos, MaxHeldBookings)
    \/ RequestRescheduleBy(HeldCustomers, MaxHeldBookings)
    \/ UpdateBookingBy({ "o1" })
    \/ Respond

SpecHeld == Init /\ [][NextHeld]_vars

-----------------------------------------------------------------------------
(* createBooking calls that interleave: each call is cut at its awaits on  *)
(* the Booking collection, the overlap read (line 173) and the insert      *)
(* (line 209)                                                              *)

\* the requests that compete: slots of s1 on the Monday
ConcurrentDtos == { dto \in CreateDtos : dto.serviceId = "s1" /\ dto.bookingDate = 0 }

\* lines 112-169: the call starts, reads the service and validates
BeginCreate(p) ==
    /\ calls[p].pc = "idle"
    /\ \E customerId \in Customers, dto \in ConcurrentDtos :
        LET invalid == ValidateRequest(dto, now)
        IN  calls' = [ calls EXCEPT ![p] =
                [ pc |-> IF invalid = NoError THEN "query" ELSE "done",
                  customerId |-> customerId, dto |-> dto, err |-> invalid,
                  seen |-> 0, id |-> NoBooking, events |-> <<>> ] ]
    /\ UNCHANGED <<bookings, now, last>>

\* lines 173-188: the overlap read; seen is how many documents the
\* collection held when it was read
QueryOverlap(p) ==
    /\ calls[p].pc = "query"
    /\ calls' = [ calls EXCEPT ![p] =
            IF OverlapQuery(bookings, calls[p].dto) # {}
            THEN [ @ EXCEPT !.pc = "done", !.err = ErrConflict, !.seen = Len(bookings) ]
            ELSE [ @ EXCEPT !.pc = "insert", !.seen = Len(bookings) ] ]
    /\ UNCHANGED <<bookings, now, last>>

\* lines 190-216: bookingModel.create, then the event
InsertBooking(p) ==
    /\ calls[p].pc = "insert"
    /\ LET doc == NewBooking(calls[p].customerId, calls[p].dto, Pending)
       IN  IF SchemaValid(doc)
           THEN /\ bookings' = Append(bookings, doc)
                /\ calls' = [ calls EXCEPT ![p] =
                        [ @ EXCEPT !.pc = "done", !.id = Len(bookings) + 1,
                                   !.events = << [ name |-> "booking.created",
                                                   booking |-> Len(bookings) + 1,
                                                   status |-> doc.status ] >> ] ]
           ELSE /\ bookings' = bookings
                /\ calls' = [ calls EXCEPT ![p] =
                        [ @ EXCEPT !.pc = "done", !.err = ErrValidation ] ]
    /\ UNCHANGED <<now, last>>

NextConcurrent ==
    \E p \in 1..MaxCalls :
        \/ BeginCreate(p)
        \/ QueryOverlap(p)
        \/ InsertBooking(p)

SpecConcurrent == Init /\ [][NextConcurrent]_vars

-----------------------------------------------------------------------------
(* Vocabulary of the properties, stated on the clock time of day and not   *)
(* on the strings and instants the code compares                           *)

Ids == 1..Len(bookings)

Active(doc) == doc.status \in { Pending, Confirmed }

\* half-open intervals [s1, e1) and [s2, e2) of minutes of the day intersect
Intersect(s1, e1, s2, e2) == s1 < e2 /\ s2 < e1

SameServiceAndDate(a, b) ==
    a.service = b.service /\ DateStringOf(a.bookingDate) = DateStringOf(b.bookingDate)

DocsIntersect(a, b) ==
    /\ SameServiceAndDate(a, b)
    /\ Intersect(MinutesOf(a.startTime), MinutesOf(a.endTime),
                 MinutesOf(b.startTime), MinutesOf(b.endTime))

\* the stored document intersects the slot a request asks for
DocIntersectsRequest(doc, dto) ==
    /\ doc.service = dto.serviceId
    /\ DateStringOf(doc.bookingDate) = dto.bookingDate
    /\ Intersect(MinutesOf(doc.startTime), MinutesOf(doc.endTime),
                 MinutesOf(dto.startTime), MinutesOf(dto.endTime))

\* the request for the slot a stored document holds
SlotOf(doc) ==
    Dto(doc.service, DateStringOf(doc.bookingDate), <<doc.startTime, doc.endTime>>,
        NoNotes, NoBooking)

SameSlot(a, b) ==
    /\ SameServiceAndDate(a, b)
    /\ a.startTime = b.startTime
    /\ a.endTime = b.endTime

\* C1: in every state reached by createBooking, requestReschedule,
\* updateBooking (customers and club owners, no admin) run one after the
\* other, no two Pending or Confirmed bookings of the same service and
\* bookingDate have intersecting [startTime, endTime) intervals
C1_NoTwoActiveBookingsIntersect ==
    \A i, j \in Ids :
        i < j /\ Active(bookings[i]) /\ Active(bookings[j])
            => ~DocsIntersect(bookings[i], bookings[j])

\* two requests ask for intersecting slots of the same service and date
RequestsIntersect(a, b) ==
    /\ a.serviceId = b.serviceId
    /\ a.bookingDate = b.bookingDate
    /\ Intersect(MinutesOf(a.startTime), MinutesOf(a.endTime),
                 MinutesOf(b.startTime), MinutesOf(b.endTime))

\* C2: when createBooking calls for intersecting slots of the same service
\* and date interleave at their reads and writes of the collection and have
\* all returned, at most one of them has stored its booking (as Pending) and
\* every other one has failed with Conflict
C2_OneOverlappingCreationSurvives ==
    \A p, q \in 1..MaxCalls :
        ( /\ p # q
          /\ calls[p].pc = "done" /\ calls[q].pc = "done"
          /\ ValidateRequest(calls[p].dto, now) = NoError
          /\ ValidateRequest(calls[q].dto, now) = NoError
          /\ RequestsIntersect(calls[p].dto, calls[q].dto) )
        => /\ ~(calls[p].id # NoBooking /\ calls[q].id # NoBooking)
           /\ calls[p].id = NoBooking => calls[p].err = ErrConflict
           /\ calls[q].id = NoBooking => calls[q].err = ErrConflict

-----------------------------------------------------------------------------
(* updateBooking against the table of permitted transitions *)

\* the roles in which a user acts on a booking
ActorRoles(user, doc) ==
    (IF doc.customer = user THEN { "Customer" } ELSE {})
        \cup (IF OwnerOf(doc.club) = user THEN { "Owner" } ELSE {})
        \cup (IF RoleAdmin \in RolesOf(user) THEN { "Admin" } ELSE {})

\* the end of the booked slot, on the clock of the operating timezone, is
\* at or before the instant t
EndPassed(doc, t) ==
    DateStringOf(doc.bookingDate) * MinutesPerDay + MinutesOf(doc.endTime)
        <= t + TzOffsetMinutes

\* (actor, from, to) is a row of the table of permitted transitions
PermittedRow(actors, from, to, endPassed) ==
    \/ /\ "Customer" \in actors
       /\ from \in { Pending, Confirmed } /\ to = CancelledByCustomer
    \/ /\ actors \cap { "Owner", "Admin" } # {}
       /\ \/ from = Pending /\ to = Confirmed
          \/ from \in { Pending, Confirmed } /\ to = CancelledByClub
          \/ from = Confirmed /\ to \in { Completed, NoShow }
          \/ from = ReschedulePending /\ to \in { Confirmed, Rejected }
          \/ to = Expired /\ endPassed
    \/ "Admin" \in actors

\* the update requests that carry a status, with or without notes
StatusUpdateDtos == [ status : BookingStatus, notes : { NoNotes, "see you" } ]

\* C3 as stated: updateBooking with a requested status changes the status of
\* the booking only when (actor, current status, requested status) is a row
\* of the table; for every other triple it fails with Forbidden and leaves
\* the collection unchanged; a caller who is neither the customer, the owner
\* of the club nor an admin always gets Forbidden
C3_OnlyTableRowsElseForbidden ==
    last = NoCall =>
        \A id \in Ids, user \in Users, dto \in StatusUpdateDtos :
            LET doc == bookings[id]
                out == UpdateOutcome(bookings, id, dto, user, now)
                row == PermittedRow(ActorRoles(user, doc), doc.status, dto.status,
                                    EndPassed(doc, now))
            IN  /\ out.store[id].status # doc.status => row
                /\ ~row => out.err.kind = "Forbidden" /\ out.store = bookings
                /\ ActorRoles(user, doc) = {} => out.err.kind = "Forbidden"

\* C3 amended: updateBooking with a requested status changes the status of
\* the booking only when (actor, current status, requested status) is a row
\* of the table; for every other triple whose requested status differs from
\* the current one it fails with Forbidden and leaves the collection
\* unchanged, and a request by the customer or the owner for the status the
\* booking already has, outside the table, succeeds and leaves the status as
\* it is; a caller who is neither the customer, the owner of the club nor an
\* admin always gets Forbidden
C3_OnlyTableRowsElseForbiddenUnlessSameStatus ==
    last = NoCall =>
        \A id \in Ids, user \in Users, dto \in StatusUpdateDtos :
            LET doc == bookings[id]
                out == UpdateOutcome(bookings, id, dto, user, now)
                actors == ActorRoles(user, doc)
                row == PermittedRow(actors, doc.status, dto.status, EndPassed(doc, now))
            IN  /\ out.store[id].status # doc.status => row
                /\ ~row /\ dto.status # doc.status
                    => out.err.kind = "Forbidden" /\ out.store = bookings
                /\ ~row /\ dto.status = doc.status /\ actors # {}
                    => /\ out.err = NoError
                       /\ out.store[id].status = doc.status
                       /\ \A other \in Ids \ { id } : out.store[other] = bookings[other]
                /\ actors = {} => out.err.kind = "Forbidden" /\ out.store = bookings

\* the owner of the club has asked for a status outside the table, got
\* Forbidden, and the booking is as it was
C3_Witness ==
    /\ last.op = "updateBooking"
    /\ last.err = ErrOwnerStatus
    /\ last.booking \in Ids
    /\ bookings[last.booking].status \in { CancelledByCustomer, Completed }

-----------------------------------------------------------------------------
(* requestReschedule *)

\* the collection while the original is on hold
OnHold(id) == [ bookings EXCEPT ![id].status = RescheduleRequested ]

\* the request passes the checks of requestReschedule that come before the hold
MayReschedule(id, user) ==
    /\ id \in Ids
    /\ bookings[id].customer = user
    /\ bookings[id].status \in { Pending, Confirmed }

-----------------------------------------------------------------------------
(* The decision on a reschedule *)

\* updateBooking(id, { status }) by user, on the collection as it is
Decide(id, user, status) ==
    UpdateOutcome(bookings, id, [ status |-> status, notes |-> NoNotes ], user, now)

\* the decision has given the booking and the original it references the
\* two statuses, and has touched no other booking
Decided(out, id, status, originalStatus) ==
    LET original == bookings[id].rescheduleOf
    IN  /\ out.err = NoError
        /\ out.store[id] = [ bookings[id] EXCEPT !.status = status ]
        /\ original \in Ids \ { id }
            => out.store[original] = [ bookings[original] EXCEPT !.status = originalStatus ]
        /\ \A other \in Ids \ { id, original } : out.store[other] = bookings[other]

\* C5 as stated: when the owner of the club or an admin confirms a booking
\* that is ReschedulePending, it becomes Confirmed and the booking its
\* rescheduleOf references becomes CancelledRescheduled; when they reject
\* it, it becomes Rejected and the original becomes Confirmed, whatever the
\* status of the original
C5_OwnerOrAdminDecidesReschedule ==
    last = NoCall =>
        \A id \in Ids, user \in Users :
            ( /\ bookings[id].status = ReschedulePending
              /\ ActorRoles(user, bookings[id]) \cap { "Owner", "Admin" } # {} )
            => /\ Decided(Decide(id, user, Confirmed), id, Confirmed, CancelledRescheduled)
               /\ Decided(Decide(id, user, Rejected), id, Rejected, Confirmed)

\* C5 amended: the same, for an owner or admin who is not the customer of
\* the booking they decide on
C5_OwnerOrAdminNotCustomerDecidesReschedule ==
    last = NoCall =>
        \A id \in Ids, user \in Users :
            ( /\ bookings[id].status = ReschedulePending
              /\ ActorRoles(user, bookings[id]) \cap { "Owner", "Admin" } # {}
              /\ "Customer" \notin ActorRoles(user, bookings[id]) )
            => /\ Decided(Decide(id, user, Confirmed), id, Confirmed, CancelledRescheduled)
               /\ Decided(Decide(id, user, Rejected), id, Rejected, Confirmed)

\* the owner or an admin has just rejected a proposal: it is Rejected and
\* the original is Confirmed
C5_Witness ==
    /\ last.op = "updateBooking"
    /\ last.err = NoError
    /\ last.status = Rejected
    /\ last.booking \in Ids
    /\ bookings[last.booking].status = Rejected
    /\ bookings[last.booking].rescheduleOf \in Ids
    /\ bookings[bookings[last.booking].rescheduleOf].status = Confirmed
    /\ bookings[last.booking].customer # last.user

-----------------------------------------------------------------------------
(* The slot of a booking on hold *)

\* booking p is the pending proposal of a reschedule of booking o, and o is
\* on hold
ProposalOf(p, o) ==
    /\ bookings[o].status = RescheduleRequested
    /\ bookings[p].status = ReschedulePending
    /\ bookings[p].rescheduleOf = o

\* the slot of booking o is still ahead and no Pending or Confirmed booking
\* intersects it
SlotIsFree(o) ==
    /\ now < MomentTz(DateStringOf(bookings[o].bookingDate), bookings[o].startTime)
    /\ \A i \in Ids : Active(bookings[i]) => ~DocsIntersect(bookings[i], bookings[o])

\* C6: while the proposal of a reschedule is ReschedulePending and the
\* original is RescheduleRequested, a createBooking by another customer for
\* the slot of the original succeeds; and if the owner of the club then
\* rejects the proposal, the original is Confirmed again with its slot
\* unchanged, next to the other customer's booking
C6_HeldSlotCanBeBookedAndRejectRestores ==
    last = NoCall =>
        \A o, p \in Ids, other \in HeldCustomers :
            ( /\ ProposalOf(p, o)
              /\ other # bookings[o].customer
              /\ SlotIsFree(o) )
            => LET created == CreateOutcome(bookings, other, SlotOf(bookings[o]), Pending, now)
                   rejected == UpdateOutcome(created.store, p,
                                             [ status |-> Rejected, notes |-> NoNotes ],
                                             OwnerOf(bookings[p].club), now)
               IN  /\ created.err = NoError
                   /\ created.store[created.id].customer = other
                   /\ Active(created.store[created.id])
                   /\ SameSlot(created.store[created.id], bookings[o])
                   /\ rejected.err = NoError
                   /\ rejected.store[p].status = Rejected
                   /\ rejected.store[o] = [ bookings[o] EXCEPT !.status = Confirmed ]
                   /\ rejected.store[created.id] = created.store[created.id]

\* the scenario has run: the original o is Confirmed again, its proposal p
\* has just been rejected by the owner, and the booking x that another
\* customer made for the slot of o after the proposal is there
C6_Witness ==
    /\ last.op = "updateBooking"
    /\ last.err = NoError
    /\ last.status = Rejected
    /\ last.user = "o1"
    /\ \E o, p, x \in Ids :
        /\ o < p /\ p < x
        /\ last.booking = p
        /\ bookings[p].status = Rejected
        /\ bookings[p].rescheduleOf = o
        /\ bookings[o].status = Confirmed
        /\ bookings[x].customer # bookings[o].customer
        /\ bookings[x].rescheduleOf = NoBooking
        /\ Active(bookings[x])
        /\ SameSlot(bookings[x], bookings[o])

-----------------------------------------------------------------------------
(* createBooking: the overlap check *)

\* C7: a createBooking request that passes the validation steps before the
\* overlap check fails with Conflict exactly when some stored booking of the
\* same service and bookingDate that is Pending or Confirmed has
\* start < requested end and end > requested start, as times of the day:
\* slots that only touch do not conflict and bookings of any other status
\* never cause a Conflict
C7_ConflictExactlyWhenActiveIntersects ==
    last = NoCall =>
        \A customerId \in Customers, dto \in CreateDtos :
            ValidateRequest(dto, now) = NoError
                => ( CreateOutcome(bookings, customerId, dto, Pending, now).err = ErrConflict
                        <=> \E i \in Ids : /\ Active(bookings[i])
                                           /\ DocIntersectsRequest(bookings[i], dto) )

-----------------------------------------------------------------------------
(* createBooking: the order of the checks *)

\* the errors of the checks, in the order of the validation sequence
CheckErrors ==
    << ErrServiceNotFound, ErrNoClub, ErrInvalidTime, ErrNotFuture, ErrNotAvailable,
       ErrDuration, ErrConflict >>

\* the minutes since the midnight that starts day 0, on the clock of the
\* operating timezone
LocalMinutes(date, time) == date * MinutesPerDay + MinutesOf(time)

\* the request passes check k of the validation sequence, on the collection
\* as it is; asked only of a request that passes the checks before k
PassesCheck(k, dto) ==
    LET service == FindServiceById(dto.serviceId)
        start == LocalMinutes(dto.bookingDate, dto.startTime)
        end == LocalMinutes(dto.bookingDate, dto.endTime)
    IN  CASE k = 1 -> service.exists /\ service.isActive
          [] k = 2 -> service.club # NoClub
          [] k = 3 -> IsValidTime(dto.startTime) /\ IsValidTime(dto.endTime) /\ start < end
          [] k = 4 -> now + TzOffsetMinutes < start
          [] k = 5 -> /\ DayOfWeek(dto.bookingDate) \in service.availableDays
                      /\ LocalMinutes(dto.bookingDate, service.openingTime) <= start
                      /\ end <= LocalMinutes(dto.bookingDate, service.closingTime)
          [] k = 6 -> end - start > 0 /\ (end - start) % service.slotDurationMinutes = 0
          [] k = 7 -> ~\E i \in Ids : /\ Active(bookings[i])
                                      /\ DocIntersectsRequest(bookings[i], dto)

\* the first check the request fails; one more than their number if it
\* passes them all
FirstFailingCheck(dto) ==
    CHOOSE k \in 1..(Len(CheckErrors) + 1) :
        /\ \A j \in 1..(k - 1) : PassesCheck(j, dto)
        /\ k <= Len(CheckErrors) => ~PassesCheck(k, dto)

\* C8: createBooking reports the first check that fails, in the order:
\* service exists and is active (NotFound), service has a club (NotFound),
\* times parse and start < end (BadRequest), start strictly after now
\* (BadRequest), weekday and operating hours (BadRequest), duration a
\* multiple of the slot (BadRequest), overlap (Conflict); whenever a check
\* fails no booking is stored and no booking.created event is emitted
C8_FirstFailingCheckIsReported ==
    last = NoCall =>
        \A customerId \in Customers, dto \in CreateDtos :
            LET out == CreateOutcome(bookings, customerId, dto, Pending, now)
                k == FirstFailingCheck(dto)
            IN  IF k <= Len(CheckErrors)
                THEN /\ out.err = CheckErrors[k]
                     /\ out.store = bookings
                     /\ out.id = NoBooking
                     /\ out.events = <<>>
                ELSE \A j \in 1..Len(CheckErrors) : out.err # CheckErrors[j]

-----------------------------------------------------------------------------
(* createBooking: what is created *)

\* C9: for an active service with a club, a start strictly in the future
\* and no intersecting Pending or Confirmed booking, createBooking creates
\* the booking if and only if the weekday of bookingDate is in
\* availableDays, openingTime <= startTime, endTime <= closingTime and
\* endTime - startTime in minutes is a positive multiple of
\* slotDurationMinutes; in every other case it fails with BadRequest
C9_CreatedExactlyWhenAvailableAndSlotMultiple ==
    last = NoCall =>
        \A customerId \in Customers, dto \in CreateDtos :
            ( /\ PassesCheck(1, dto) /\ PassesCheck(2, dto)
              /\ PassesCheck(4, dto) /\ PassesCheck(7, dto) )
            => LET out == CreateOutcome(bookings, customerId, dto, Pending, now)
                   admissible == PassesCheck(5, dto) /\ PassesCheck(6, dto)
               IN  /\ out.err = NoError <=> admissible
                   /\ ~admissible => out.err.kind = "BadRequest"

\* C10: after a successful createBooking the booking read back by its id
\* has the customer, service, bookingDate, startTime and endTime of the
\* request, durationHours = (endTime - startTime) in hours, totalPrice =
\* hourlyPrice x durationHours, paymentStatus pending and the initial status
\* given (Pending when none is given); the other bookings are as they were
\* and exactly one booking.created event, for the stored booking, has been
\* emitted
C10_CreatedBookingReadsBack ==
    last = NoCall =>
        \A customerId \in Customers, dto \in CreateDtos,
           initialStatus \in { Pending, ReschedulePending } :
            LET out == CreateOutcome(bookings, customerId, dto, initialStatus, now)
                doc == out.store[out.id]
                minutes == MinutesOf(dto.endTime) - MinutesOf(dto.startTime)
            IN  out.err = NoError
                    => /\ out.id = Len(bookings) + 1
                       /\ Len(out.store) = Len(bookings) + 1
                       /\ \A i \in Ids : out.store[i] = bookings[i]
                       /\ doc.customer = customerId
                       /\ doc.service = dto.serviceId
                       /\ DateStringOf(doc.bookingDate) = dto.bookingDate
                       /\ doc.startTime = dto.startTime
                       /\ doc.endTime = dto.endTime
                       /\ doc.durationHours * MinutesPerHour = minutes * MinutesPerHour
                       /\ doc.totalPrice
                            = FindServiceById(dto.serviceId).hourlyPrice * doc.durationHours
                       /\ doc.paymentStatus = "pending"
                       /\ doc.status = initialStatus
                       /\ Len(out.events) = 1
                       /\ out.events[1].name = "booking.created"
                       /\ out.events[1].booking = out.id

\* a createBooking for half an hour has just succeeded: the booking is
\* stored as Pending for half the hourly price and its event is out
C10_Witness ==
    /\ last.op = "createBooking"
    /\ last.err = NoError
    /\ last.booking = Len(bookings)
    /\ Len(bookings) = 2
    /\ bookings[last.booking].customer = last.user
    /\ bookings[last.booking].status = Pending
    /\ bookings[last.booking].durationHours = 30
    /\ bookings[last.booking].totalPrice * 2
         = FindServiceById(bookings[last.booking].service).hourlyPrice * MinutesPerHour
    /\ Len(last.events) = 1
    /\ last.events[1].booking = last.booking

-----------------------------------------------------------------------------
(* requestReschedule: the proposal *)

\* the new slot passes the validation sequence of createBooking while
\* booking id is on hold: the checks before the overlap check, and no
\* Pending or Confirmed booking other than the one on hold intersects it
PassesValidationOnHold(id, dto) ==
    /\ \A k \in 1..(Len(CheckErrors) - 1) :
            (\A j \in 1..(k - 1) : PassesCheck(j, dto)) => PassesCheck(k, dto)
    /\ ~\E i \in Ids \ { id } : Active(bookings[i]) /\ DocIntersectsRequest(bookings[i], dto)

\* C11: when the customer of a booking that is Pending or Confirmed calls
\* requestReschedule and the new slot passes every validation of
\* createBooking, then on return the original is RescheduleRequested and
\* exactly one new booking has been stored, with status ReschedulePending,
\* rescheduleOf the id of the original and the caller as customer
C11_RescheduleHoldsOriginalAndStoresProposal ==
    last = NoCall =>
        \A id \in Ids, user \in Users :
            MayReschedule(id, user) =>
                \A dto \in CreateDtos :
                    PassesValidationOnHold(id, dto) =>
                        LET out == RescheduleOutcome(bookings, id, dto, user, now)
                        IN  /\ out.err = NoError
                            /\ Len(out.store) = Len(bookings) + 1
                            /\ out.id = Len(out.store)
                            /\ out.store[id]
                                 = [ bookings[id] EXCEPT !.status = RescheduleRequested ]
                            /\ \A other \in Ids \ { id } : out.store[other] = bookings[other]
                            /\ out.store[out.id].status = ReschedulePending
                            /\ out.store[out.id].rescheduleOf = id
                            /\ out.store[out.id].customer = user

-----------------------------------------------------------------------------
(* requestReschedule cut at its awaits: the read of the original (line     *)
(* 233), the save that puts it on hold (line 252), createBooking (line     *)
(* 257), the save of the rollback (line 263).  A save may fail: then it    *)
(* throws and writes nothing.                                              *)

\* the error a save throws when the write to the collection fails
ErrStorage == Err("MongoError", "write failed")

\* the new slots asked for in these calls: slots of s1 on the Monday
SagaDtos == { dto \in RescheduleDtos : dto.serviceId = "s1" }

\* the steps a call has completed, in order
Step(p, name) == Append(calls[p].trace, name)

\* lines 233-247: the original is read and the checks on it are made
FindOriginalWith(p, users, dtos) ==
    /\ last = NoCall
    /\ calls[p].pc = "idle"
    /\ \E currentUser \in users, id \in 1..(Len(bookings) + 1), dto \in dtos :
        LET call(pc, err) ==
                [ pc |-> pc, user |-> currentUser, original |-> id, dto |-> dto,
                  previousStatus |-> IF id \in Ids THEN bookings[id].status ELSE NoStatus,
                  err |-> err, creationErr |-> NoError, id |-> NoBooking,
                  rollbackWrites |-> 0, rollbackFailed |-> FALSE, trace |-> <<>> ]
        IN  calls' = [ calls EXCEPT ![p] =
                IF id \notin Ids THEN call("done", ErrOriginalNotFound)
                ELSE IF bookings[id].customer # currentUser THEN call("done", ErrNotOwnBooking)
                ELSE IF bookings[id].status \notin { Confirmed, Pending }
                THEN call("done", ErrNotReschedulable)
                ELSE call("hold", NoError) ]
    /\ UNCHANGED <<bookings, now, last>>

FindOriginal(p) == FindOriginalWith(p, HeldCustomers, SagaDtos)

\* lines 250-252: originalBooking.status = RescheduleRequested; await save()
HoldOriginal(p) ==
    /\ calls[p].pc = "hold"
    /\ \E written \in BOOLEAN :
        IF written
        THEN /\ bookings' = [ bookings EXCEPT ![calls[p].original].status = RescheduleRequested ]
             /\ calls' = [ calls EXCEPT ![p].pc = "create", ![p].trace = Step(p, "hold") ]
        ELSE /\ bookings' = bookings
             /\ calls' = [ calls EXCEPT ![p].pc = "done", ![p].err = ErrStorage ]
    /\ UNCHANGED <<now, last>>

\* lines 254-258: await this.createBooking(currentUser.id, newBookingDto,
\* BookingStatus.ReschedulePending); its overlap read and its insert
CreateProposed(p) ==
    /\ calls[p].pc = "create"
    /\ Len(bookings) < MaxHeldBookings
    /\ LET newBookingDto == [ calls[p].dto EXCEPT !.rescheduleOf = calls[p].original ]
           out == CreateOutcome(bookings, calls[p].user, newBookingDto, ReschedulePending, now)
           read == IF ValidateRequest(newBookingDto, now) = NoError
                   THEN Step(p, "overlap check") ELSE calls[p].trace
       IN  /\ bookings' = out.store
           /\ calls' = [ calls EXCEPT ![p] =
                  IF out.err = NoError
                  THEN [ @ EXCEPT !.pc = "done", !.id = out.id, !.trace = Append(read, "insert") ]
                  ELSE [ @ EXCEPT !.pc = "rollback", !.creationErr = out.err, !.trace = read ] ]
    /\ UNCHANGED <<now, last>>

\* lines 259-264 with the save of the rollback not awaited: the error is
\* thrown while the write is still on its way
RollbackOriginalNotAwaited(p) ==
    /\ calls[p].pc = "rollback"
    /\ bookings' = bookings
    /\ calls' = [ calls EXCEPT ![p].pc = "done", ![p].err = calls[p].creationErr,
                               ![p].rollbackWrites = 1 ]
    /\ UNCHANGED <<now, last>>

\* lines 259-264: originalBooking.status = previousStatus; await save();
\* throw error.  A save that fails throws out of the catch block.
RollbackOriginal(p) ==
    /\ calls[p].pc = "rollback"
    /\ \E written \in BOOLEAN :
        IF written
        THEN /\ bookings' = [ bookings EXCEPT ![calls[p].original].status =
                                                  calls[p].previousStatus ]
             /\ calls' = [ calls EXCEPT ![p].pc = "done", ![p].err = calls[p].creationErr,
                                        ![p].rollbackWrites = 1,
                                        ![p].trace = Step(p, "rollback") ]
        ELSE /\ bookings' = bookings
             /\ calls' = [ calls EXCEPT ![p].pc = "done", ![p].err = ErrStorage,
                                        ![p].rollbackWrites = 1, ![p].rollbackFailed = TRUE ]
    /\ UNCHANGED <<now, last>>

\* the proposed booking, or the exception, reaches the caller
ReturnReschedule(p) ==
    /\ calls[p].pc = "done"
    /\ calls' = [ calls EXCEPT ![p] = [ pc |-> "idle" ] ]
    /\ UNCHANGED <<bookings, now, last>>

NextSaga ==
    \/ CreateBookingBy(HeldCustomers, SagaDtos, MaxHeldBookings - 1)
    \/ Respond
    \/ \E p \in 1..MaxSagaCalls :
        \/ FindOriginal(p)
        \/ HoldOriginal(p)
        \/ CreateProposed(p)
        \/ RollbackOriginal(p)
        \/ ReturnReschedule(p)

SpecSaga == Init /\ [][NextSaga]_vars

\* call p has returned and the creation of its new booking had failed
CreationFailed(p) == calls[p].pc = "done" /\ calls[p].creationErr # NoError

\* step a is in the trace of call p, and before step b if b is there
Before(p, a, b) ==
    \E i \in 1..Len(calls[p].trace) :
        /\ calls[p].trace[i] = a
        /\ \A j \in 1..Len(calls[p].trace) : calls[p].trace[j] = b => i < j

\* C12: in requestReschedule, if the write that rolls the original back
\* fails, the write is tried a second time, and the caller receives the
\* error the creation raised whether or not the rollback succeeded in the end
C12_RollbackRetriedOnceAndCreationErrorReturned ==
    \A p \in 1..MaxSagaCalls :
        CreationFailed(p)
            => /\ calls[p].err = calls[p].creationErr
               /\ calls[p].rollbackFailed => calls[p].rollbackWrites = 2

\* C13: within one requestReschedule call, the write that puts the original
\* in RescheduleRequested has completed before the overlap check and the
\* insert of the new booking begin; and when the creation fails, the write
\* that rolls the original back has completed before the error of the
\* creation is returned to the caller
C13_HoldBeforeCreationAndRollbackBeforeError ==
    \A p \in 1..MaxSagaCalls :
        calls[p].pc # "idle" =>
            /\ calls[p].pc \in { "create", "rollback" } => Before(p, "hold", "overlap check")
            /\ \A j \in 1..Len(calls[p].trace) :
                    calls[p].trace[j] \in { "overlap check", "insert" }
                        => /\ Before(p, "hold", "overlap check")
                           /\ Before(p, "hold", "insert")
            /\ CreationFailed(p) /\ calls[p].err = calls[p].creationErr
                    => /\ calls[p].trace[Len(calls[p].trace)] = "rollback"
                       /\ Before(p, "hold", "rollback")
                       /\ Before(p, "overlap check", "rollback")
                            \/ calls[p].creationErr # ErrConflict

\* a call has returned Conflict for a new slot that is taken: the hold, the
\* overlap check and the rollback were made in that order and the original
\* has the status it had
C13_Witness ==
    \E p \in 1..MaxSagaCalls :
        /\ calls[p].pc = "done"
        /\ calls[p].err = ErrConflict
        /\ calls[p].trace = << "hold", "overlap check", "rollback" >>
        /\ bookings[calls[p].original].status = calls[p].previousStatus

-----------------------------------------------------------------------------
(* The admin: an admin and a customer book slots of s1 on the Monday and   *)
(* ask to reschedule them, the admin updates the bookings, time passes     *)

AdminBookers == { "u1", "adm" }

NextAdmin ==
    \/ CreateBookingBy(AdminBookers, SagaDtos, MaxBookings)
    \/ RequestRescheduleBy(AdminBookers, MaxBookings)
    \/ UpdateBookingBy({ "adm" })
    \/ Tick
    \/ Respond

SpecAdmin == Init /\ [][NextAdmin]_vars

\* C14 as stated: an actor with the admin role can move any booking from any
\* status to any status with updateBooking, whatever their other relation
\* to the booking and whatever the status asked for
C14_AdminMovesAnyBookingToAnyStatus ==
    last = NoCall =>
        \A id \in Ids, user \in Users, status \in BookingStatus :
            RoleAdmin \in RolesOf(user)
                => /\ Decide(id, user, status).err = NoError
                   /\ Decide(id, user, status).store[id].status = status

\* C14 amended: an admin who is not the customer of the booking can move it
\* from any status to any status other than Expired, and to Expired once the
\* end of its slot has passed; an admin who is the customer of the booking
\* is held to what a customer may do: cancel it while it is Pending or
\* Confirmed, and nothing else that changes its status
C14_AdminNotCustomerMovesToAnyStatusButEarlyExpired ==
    last = NoCall =>
        \A id \in Ids, user \in Users, status \in BookingStatus :
            RoleAdmin \in RolesOf(user) =>
                LET out == Decide(id, user, status)
                    doc == bookings[id]
                IN  IF doc.customer # user
                    THEN IF status # Expired \/ EndPassed(doc, now)
                         THEN out.err = NoError /\ out.store[id].status = status
                         ELSE out.err.kind = "Forbidden" /\ out.store = bookings
                    ELSE IF status = CancelledByCustomer /\ doc.status \in { Pending, Confirmed }
                         THEN out.err = NoError /\ out.store[id].status = status
                         ELSE /\ out.store = bookings
                              /\ status # doc.status => out.err.kind = "Forbidden"

\* the admin has just put on hold, by override, a booking of another user
\* that no proposal references, next to a booking of the admin's own
C14_Witness ==
    /\ last.op = "updateBooking"
    /\ last.err = NoError
    /\ last.user = "adm"
    /\ last.status = RescheduleRequested
    /\ last.booking \in Ids
    /\ bookings[last.booking].status = RescheduleRequested
    /\ bookings[last.booking].customer # "adm"
    /\ \A i \in Ids : bookings[i].rescheduleOf # last.booking
    /\ \E i \in Ids : bookings[i].customer = "adm"

-----------------------------------------------------------------------------
(* Terminal statuses *)

TerminalStatuses ==
    { CancelledByCustomer, CancelledByClub, Completed, NoShow, Rejected, Expired,
      CancelledRescheduled }

\* the step is a call that an admin made
ByAdmin == last'.op = "updateBooking" /\ RoleAdmin \in RolesOf(last'.user)

\* C15: once the status of a booking is CancelledByCustomer, CancelledByClub,
\* Completed, NoShow, Rejected, Expired or CancelledRescheduled, no later
\* operation of a customer or of a club owner (a status update on it, a
\* reschedule request, the acceptance or the rejection of a proposal that
\* references it) and no expiry sweep changes that status
C15_TerminalStatusNeverChanges ==
    [][ \A i \in Ids :
            bookings[i].status \in TerminalStatuses /\ ~ByAdmin
                => bookings'[i].status = bookings[i].status ]_vars

-----------------------------------------------------------------------------
(* The manual expiry *)

\* the update requests that ask for Expired, with or without notes
ExpireDtos == { dto \in StatusUpdateDtos : dto.status = Expired }

\* C16 as stated: a request to set the status of a booking to Expired
\* succeeds only when the caller is the owner of the club or an admin and
\* bookingDate+endTime of the stored booking is at or before now; before that
\* instant it fails with Forbidden and the booking is unchanged, and for a
\* customer it fails with Forbidden at any time
C16_ExpiredOnlyByOwnerOrAdminAfterEnd ==
    last = NoCall =>
        \A id \in Ids, user \in Users, dto \in ExpireDtos :
            LET doc == bookings[id]
                out == UpdateOutcome(bookings, id, dto, user, now)
                actors == ActorRoles(user, doc)
            IN  /\ out.err = NoError
                    => actors \cap { "Owner", "Admin" } # {} /\ EndPassed(doc, now)
                /\ ~EndPassed(doc, now) => out.err.kind = "Forbidden" /\ out.store = bookings
                /\ "Customer" \in actors => out.err.kind = "Forbidden"

\* C16 amended: a request to set the status of a booking to Expired changes
\* the booking only when the caller is the owner of the club or an admin, is
\* not its customer, and bookingDate+endTime of the stored booking is at or
\* before now, and then it succeeds; before that instant it fails with
\* Forbidden and the booking is unchanged; for the customer it fails with
\* Forbidden at any time unless the booking is Expired already, in which
\* case it succeeds and leaves the status as it is
C16_ExpiredOnlyByOwnerOrAdminAfterEndUnlessExpired ==
    last = NoCall =>
        \A id \in Ids, user \in Users, dto \in ExpireDtos :
            LET doc == bookings[id]
                out == UpdateOutcome(bookings, id, dto, user, now)
                actors == ActorRoles(user, doc)
                unchanged == \A other \in Ids \ { id } : out.store[other] = bookings[other]
            IN  /\ ~EndPassed(doc, now) => out.err.kind = "Forbidden" /\ out.store = bookings
                /\ IF "Customer" \in actors
                   THEN IF doc.status = Expired
                        THEN out.err = NoError /\ out.store[id].status = Expired /\ unchanged
                        ELSE out.err.kind = "Forbidden" /\ out.store = bookings
                   ELSE IF actors # {} /\ EndPassed(doc, now)
                        THEN out.err = NoError /\ out.store[id].status = Expired /\ unchanged
                        ELSE out.err.kind = "Forbidden" /\ out.store = bookings

\* the owner of the club has just marked Expired a booking of a customer
\* whose slot has ended, while another booking that has not ended is as it was
C16_Witness ==
    /\ last.op = "updateBooking"
    /\ last.err = NoError
    /\ last.status = Expired
    /\ last.user = "o1"
    /\ last.booking \in Ids
    /\ bookings[last.booking].status = Expired
    /\ bookings[last.booking].customer = "u1"
    /\ EndPassed(bookings[last.booking], now)
    /\ \E i \in Ids : ~EndPassed(bookings[i], now) /\ bookings[i].status = Pending

-----------------------------------------------------------------------------
(* The expiry sweep *)

\* C17: after expirePastBookings has run at time now, every booking that
\* was Pending or Confirmed with bookingDate+endTime at or before now is
\* Expired, and every other booking (one that ends later, or one of any
\* other status, ReschedulePending and RescheduleRequested included) is
\* exactly as it was before the sweep
C17_SweepExpiresExactlyEndedActiveBookings ==
    last = NoCall =>
        LET swept == ExpirePastBookingsOutcome(bookings, now)
        IN  /\ Len(swept) = Len(bookings)
            /\ \A i \in Ids :
                IF Active(bookings[i]) /\ EndPassed(bookings[i], now)
                THEN swept[i] = [ bookings[i] EXCEPT !.status = Expired ]
                ELSE swept[i] = bookings[i]

\* a sweep has just expired a booking that had ended and has left on hold
\* another one that had ended too
C17_Witness ==
    /\ last.op = "expirePastBookings"
    /\ last.modified = 1
    /\ \E i, j \in Ids :
        /\ bookings[i].status = Expired
        /\ EndPassed(bookings[i], now)
        /\ bookings[j].status = RescheduleRequested
        /\ EndPassed(bookings[j], now)

-----------------------------------------------------------------------------
(* getAvailableSlots *)

ErrSportServiceNotFound == Err("NotFound", "sport service not found")

\* moment.format('HH:mm') of an instant, in the operating timezone
FormatHHmm(instant) ==
    LET local == (instant + TzOffsetMinutes) % MinutesPerDay
    IN  << local \div MinutesPerHour, local % MinutesPerHour >>

\* lines 52-64, the loop from currentTime on: the slots pushed
RECURSIVE SlotsFrom(_, _, _)
SlotsFrom(currentTime, serviceClosingTime, slotDuration) ==
    IF currentTime < serviceClosingTime
    THEN LET added == currentTime + slotDuration
             endTime == IF added > serviceClosingTime THEN serviceClosingTime ELSE added
         IN  << [ start |-> currentTime, end |-> endTime,
                  display |-> << FormatHHmm(currentTime), FormatHHmm(endTime) >> ] >>
                 \o SlotsFrom(endTime, serviceClosingTime, slotDuration)
    ELSE <<>>

\* lines 52-64 with the last slot left to run past the closing time (lines
\* 54-56 left out)
PotentialSlotsNotCut(service, dateString) ==
    LET closing == MomentTz(dateString, service.closingTime)
        duration == service.slotDurationMinutes
        starts == { t \in MomentTz(dateString, service.openingTime)..(closing - 1) :
                      (t - MomentTz(dateString, service.openingTime)) % duration = 0 }
        nth(k) == MomentTz(dateString, service.openingTime) + (k - 1) * duration
    IN  [ k \in 1..Cardinality(starts) |->
            [ start |-> nth(k), end |-> nth(k) + duration,
              display |-> << FormatHHmm(nth(k)), FormatHHmm(nth(k) + duration) >> ] ]

\* lines 44-64: potentialSlots
PotentialSlots(service, dateString) ==
    SlotsFrom(MomentTz(dateString, service.openingTime),
              MomentTz(dateString, service.closingTime),
              service.slotDurationMinutes)

\* lines 81: potentialSlots.find(s => s.display === displaySlot)
FindByDisplay(potentialSlots, displaySlot) ==
    potentialSlots[CHOOSE k \in 1..Len(potentialSlots) :
                      /\ potentialSlots[k].display = displaySlot
                      /\ \A j \in 1..(k - 1) : potentialSlots[j].display # displaySlot]

\* lines 67-71: the bookings the find returns
BookedBookings(store, serviceId, dateString) ==
    { i \in 1..Len(store) :
        /\ store[i].service = serviceId
        /\ store[i].bookingDate = BookingDateOf(dateString)
        /\ store[i].status \in { Pending, Confirmed } }

\* lines 29-95 with a slot that only touches a booking taken as booked
\* (isSameOrBefore and isSameOrAfter at lines 87-88)
GetAvailableSlotsTouchingBooked(store, serviceId, service, dateString) ==
    LET potentialSlots == PotentialSlots(service, dateString)
        display(k) == potentialSlots[k].display
        free(displaySlot) ==
            \A i \in BookedBookings(store, serviceId, dateString) :
                LET potentialSlot == FindByDisplay(potentialSlots, displaySlot)
                IN  ~( /\ potentialSlot.start <= MomentTz(dateString, store[i].endTime)
                       /\ potentialSlot.end >= MomentTz(dateString, store[i].startTime) )
    IN  IF ~service.exists THEN [ err |-> ErrSportServiceNotFound, slots |-> <<>> ]
        ELSE IF DayOfWeek(dateString) \notin service.availableDays
        THEN [ err |-> NoError, slots |-> <<>> ]
        ELSE [ err |-> NoError,
               slots |-> SelectSeq([ k \in 1..Len(potentialSlots) |-> display(k) ], free) ]

\* lines 29-95: getAvailableSlots(serviceId, dateString), service being the
\* document findById returns; the display strings are pairs of times
GetAvailableSlotsOutcome(store, serviceId, service, dateString) ==
    LET potentialSlots == PotentialSlots(service, dateString)
        display(k) == potentialSlots[k].display
        \* lines 76-91: the slot is kept by the filter of every booking
        free(displaySlot) ==
            \A i \in BookedBookings(store, serviceId, dateString) :
                LET potentialSlot == FindByDisplay(potentialSlots, displaySlot)
                IN  ~( /\ potentialSlot.start < MomentTz(dateString, store[i].endTime)
                       /\ potentialSlot.end > MomentTz(dateString, store[i].startTime) )
    IN  IF ~service.exists THEN [ err |-> ErrSportServiceNotFound, slots |-> <<>> ]
        ELSE IF DayOfWeek(dateString) \notin service.availableDays
        THEN [ err |-> NoError, slots |-> <<>> ]
        ELSE [ err |-> NoError,
               slots |-> SelectSeq([ k \in 1..Len(potentialSlots) |-> display(k) ], free) ]

\* the slot lengths a service is given
SlotDurations == { 15, 20, 30, 45 }

\* the documents findById returns for s1 and s2: the service as it is in the
\* catalogue or after an updateSport of its days, hours or slot length (a
\* closing time at or before the opening time included), the same services
\* switched off (isActive false), and no document
SlotServices ==
    { [ id |-> id,
        doc |-> [ FindServiceById(id) EXCEPT !.availableDays = days, !.openingTime = opening,
                                             !.closingTime = closing,
                                             !.slotDurationMinutes = duration ] ] :
        id \in { "s1", "s2" }, days \in { { "Mon" }, { "Mon", "Tue" } },
        opening \in { <<9, 30>>, <<10, 0>> }, closing \in { <<10, 0>>, <<10, 30>> },
        duration \in SlotDurations }
      \cup { [ id |-> id, doc |-> [ FindServiceById(id) EXCEPT !.isActive = FALSE ] ] :
                id \in { "s1", "s2" } }
      \cup { [ id |-> "sGone", doc |-> NoService ] }

\* the bookings made while slots are asked for: slots of s1 on the Monday
\* and of s2 on the Tuesday, written HH:MM
SlotDtos ==
    { dto \in CreateDtos : /\ dto.serviceId \in { "s1", "s2" }
                           /\ MatchesTimeFormat(dto.startTime)
                           /\ MinutesOf(dto.startTime) < MinutesOf(dto.endTime)
                           /\ MinutesOf(dto.endTime) - MinutesOf(dto.startTime) >= 30 }

\* getAvailableSlots(serviceId, dateString): it reads and writes nothing
GetAvailableSlots ==
    /\ last = NoCall
    /\ \E service \in SlotServices, dateString \in Dates :
        LET out == GetAvailableSlotsOutcome(bookings, service.id, service.doc, dateString)
        IN  last' = [ op |-> "getAvailableSlots", booking |-> NoBooking, err |-> out.err,
                      events |-> <<>>, serviceId |-> service.id, service |-> service.doc,
                      dateString |-> dateString, slots |-> out.slots ]
    /\ UNCHANGED <<bookings, now, calls>>

NextSlots ==
    \/ CreateBookingBy({ "u1" }, SlotDtos, MaxBookings)
    \/ UpdateBookingBy({ "o1" })
    \/ GetAvailableSlots
    \/ Respond

SpecSlots == Init /\ [][NextSlots]_vars

\* the minutes of the day, on the clock of the operating timezone, of an
\* instant of day dateString
ClockOf(instant, dateString) == instant + TzOffsetMinutes - dateString * MinutesPerDay

\* C19: for a date whose weekday is in availableDays, the potential slots
\* that getAvailableSlots generates start at openingTime, each slot starts
\* where the one before it ends, every slot is slotDurationMinutes long
\* except possibly the last, which is cut at closingTime, and the last slot
\* ends exactly at closingTime
C19_PotentialSlotsTileTheOpeningHours ==
    last.op = "getAvailableSlots" /\ last.err = NoError
            /\ DayOfWeek(last.dateString) \in last.service.availableDays =>
        LET slots == PotentialSlots(last.service, last.dateString)
            n == Len(slots)
            opening == MinutesOf(last.service.openingTime)
            closing == MinutesOf(last.service.closingTime)
            duration == last.service.slotDurationMinutes
            start(k) == ClockOf(slots[k].start, last.dateString)
            end(k) == ClockOf(slots[k].end, last.dateString)
        IN  /\ n = 0 <=> opening >= closing
            /\ n > 0 => start(1) = opening /\ end(n) = closing
            /\ \A k \in 1..(n - 1) : start(k + 1) = end(k) /\ end(k) - start(k) = duration
            /\ n > 0 => end(n) - start(n) > 0 /\ end(n) - start(n) <= duration
            /\ \A k \in 1..n :
                  slots[k].display = << << start(k) \div MinutesPerHour, start(k) % MinutesPerHour >>,
                                        << end(k) \div MinutesPerHour, end(k) % MinutesPerHour >> >>

\* the slots of a service open from 09:30 to 10:30 with slots of 45 minutes
\* have just been asked for: 09:30-10:15 and the cut 10:15-10:30
C19_Witness ==
    /\ last.op = "getAvailableSlots"
    /\ last.err = NoError
    /\ DayOfWeek(last.dateString) \in last.service.availableDays
    /\ last.service.slotDurationMinutes = 45
    /\ LET slots == PotentialSlots(last.service, last.dateString)
       IN  /\ Len(slots) = 2
           /\ slots[1].display = << <<9, 30>>, <<10, 15>> >>
           /\ slots[2].display = << <<10, 15>>, <<10, 30>> >>

\* the potential slot intersects the stored booking, as intervals of the
\* clock: booking.start < slot.end and booking.end > slot.start
SlotIntersectsBooking(slot, doc, dateString) ==
    /\ MinutesOf(doc.startTime) < ClockOf(slot.end, dateString)
    /\ MinutesOf(doc.endTime) > ClockOf(slot.start, dateString)

\* C20: getAvailableSlots returns, in the order of their generation, exactly
\* the potential slots that intersect no Pending or Confirmed booking of
\* that service and date, where a slot and a booking that only touch do not
\* intersect; it returns the empty sequence when the weekday of the date is
\* not in availableDays
C20_AvailableSlotsAreTheFreePotentialSlots ==
    last.op = "getAvailableSlots" /\ last.err = NoError =>
        LET slots == PotentialSlots(last.service, last.dateString)
            taken(slot) ==
                \E i \in Ids :
                    /\ Active(bookings[i])
                    /\ bookings[i].service = last.serviceId
                    /\ DateStringOf(bookings[i].bookingDate) = last.dateString
                    /\ SlotIntersectsBooking(slot, bookings[i], last.dateString)
            free(slot) == ~taken(slot)
            expected == SelectSeq(slots, free)
        IN  IF DayOfWeek(last.dateString) \notin last.service.availableDays
            THEN last.slots = <<>>
            ELSE /\ Len(last.slots) = Len(expected)
                 /\ \A k \in 1..Len(expected) : last.slots[k] = expected[k].display

\* slots have just been asked for on a day with a Pending or Confirmed
\* booking and a cancelled one: the slot that ends where the first begins
\* or begins where it ends is returned, a slot it intersects is not, and
\* the cancelled one takes no slot
C20_Witness ==
    /\ last.op = "getAvailableSlots"
    /\ last.err = NoError
    /\ last.slots # <<>>
    /\ Len(last.slots) < Len(PotentialSlots(last.service, last.dateString))
    /\ \E i, j \in Ids :
        /\ Active(bookings[i])
        /\ bookings[i].service = last.serviceId
        /\ DateStringOf(bookings[i].bookingDate) = last.dateString
        /\ \E k \in 1..Len(last.slots) :
              \/ last.slots[k][1] = bookings[i].endTime
              \/ last.slots[k][2] = bookings[i].startTime
        /\ bookings[j].status = CancelledByClub
        /\ bookings[j].service = last.serviceId
        /\ DateStringOf(bookings[j].bookingDate) = last.dateString
        /\ \E k \in 1..Len(last.slots) :
              /\ MinutesOf(last.slots[k][1]) < MinutesOf(bookings[j].endTime)
              /\ MinutesOf(bookings[j].startTime) < MinutesOf(last.slots[k][2])

\* C21: getAvailableSlots returns the empty sequence for every service
\* whose active flag is false, whatever its operating days, its hours and
\* its bookings
C21_InactiveServiceHasNoAvailableSlots ==
    last.op = "getAvailableSlots" /\ last.err = NoError /\ ~last.service.isActive
        => last.slots = <<>>

-----------------------------------------------------------------------------
(* getAvailableSlots, the slot generation loop one iteration at a time *)

\* the slots the potentialSlots array has room for; the opening hours of an
\* hour hold at most four slots of a quarter of an hour, so only a loop that
\* does not advance towards the closing time fills it
MaxLoopSlots == 6

\* the slot lengths a service record can hold: slotDurationMinutes is a
\* number with a default and no minimum (SportService schema)
StoredSlotDurations == SlotDurations \cup { 0 - 15, 0 }

\* the documents findById returns, for every stored slot length
LoopServices ==
    { [ id |-> id,
        doc |-> [ FindServiceById(id) EXCEPT !.availableDays = days, !.openingTime = opening,
                                             !.closingTime = closing,
                                             !.slotDurationMinutes = duration ] ] :
        id \in { "s1", "s2" }, days \in { { "Mon" }, { "Mon", "Tue" } },
        opening \in { <<9, 30>>, <<10, 0>> }, closing \in { <<10, 0>>, <<10, 30>> },
        duration \in StoredSlotDurations }
      \cup { [ id |-> "sGone", doc |-> NoService ] }

\* lines 29-50: the service is read, the weekday is looked up and the loop is
\* set at the opening time; a missing service and a closed day return at once
BeginSlots ==
    /\ last = NoCall
    /\ calls[1].pc = "idle"
    /\ \E service \in LoopServices, dateString \in Dates :
        LET call(pc, err) ==
                [ pc |-> pc, serviceId |-> service.id, service |-> service.doc,
                  dateString |-> dateString, err |-> err,
                  currentTime |-> IF pc = "loop"
                                  THEN MomentTz(dateString, service.doc.openingTime) ELSE 0,
                  potentialSlots |-> <<>> ]
        IN  calls' = [ calls EXCEPT ![1] =
                IF service.doc = NoService THEN call("return", ErrSportServiceNotFound)
                ELSE IF DayOfWeek(dateString) \notin service.doc.availableDays
                THEN call("return", NoError)
                ELSE call("loop", NoError) ]
    /\ UNCHANGED <<bookings, now, last>>

\* lines 52-64, one iteration: while currentTime.isBefore(serviceClosingTime)
\* a slot is pushed and currentTime becomes its end
PushSlot ==
    /\ calls[1].pc = "loop"
    /\ calls[1].currentTime < MomentTz(calls[1].dateString, calls[1].service.closingTime)
    /\ Len(calls[1].potentialSlots) < MaxLoopSlots
    /\ LET currentTime == calls[1].currentTime
           serviceClosingTime == MomentTz(calls[1].dateString, calls[1].service.closingTime)
           added == currentTime + calls[1].service.slotDurationMinutes
           endTime == IF added > serviceClosingTime THEN serviceClosingTime ELSE added
       IN  calls' = [ calls EXCEPT
               ![1].potentialSlots =
                   Append(@, [ start |-> currentTime, end |-> endTime,
                               display |-> << FormatHHmm(currentTime), FormatHHmm(endTime) >> ]),
               ![1].currentTime = endTime ]
    /\ UNCHANGED <<bookings, now, last>>

\* line 52, the condition false: the loop is left
LeaveLoop ==
    /\ calls[1].pc = "loop"
    /\ ~(calls[1].currentTime < MomentTz(calls[1].dateString, calls[1].service.closingTime))
    /\ calls' = [ calls EXCEPT ![1].pc = "return" ]
    /\ UNCHANGED <<bookings, now, last>>

\* lines 32, 41 and 66-94: the exception, the empty list or the slots left
\* after the booked ones are taken out reach the caller
ReturnSlots ==
    /\ calls[1].pc = "return"
    /\ LET out == IF calls[1].pc = "return" /\ calls[1].err = NoError
                  THEN GetAvailableSlotsOutcome(bookings, calls[1].serviceId,
                                                calls[1].service, calls[1].dateString)
                  ELSE [ err |-> calls[1].err, slots |-> <<>> ]
       IN  last' = [ op |-> "getAvailableSlots", booking |-> NoBooking, err |-> out.err,
                     events |-> <<>>, serviceId |-> calls[1].serviceId,
                     service |-> calls[1].service, dateString |-> calls[1].dateString,
                     slots |-> out.slots ]
    /\ calls' = [ calls EXCEPT ![1] = [ pc |-> "idle" ] ]
    /\ UNCHANGED <<bookings, now>>

NextSlotLoop ==
    \/ CreateBookingBy({ "u1" }, SlotDtos, 1)
    \/ BeginSlots
    \/ PushSlot
    \/ LeaveLoop
    \/ ReturnSlots
    \/ Respond

\* the event loop runs the handler on: an iteration that can be made is made
SpecSlotLoop ==
    /\ Init
    /\ [][NextSlotLoop]_vars
    /\ WF_vars(PushSlot)
    /\ WF_vars(LeaveLoop)
    /\ WF_vars(ReturnSlots)

\* C22: the slot generation of getAvailableSlots ends, with a finite
\* sequence of slots, for every service configuration the store can hold:
\* every slotDurationMinutes and every pair of openingTime and closingTime
C22_SlotGenerationTerminates ==
    (calls[1].pc = "loop") ~> (calls[1].pc = "idle")

-----------------------------------------------------------------------------
(* updateBooking with notes: a customer books slots of s1 on the Monday;   *)
(* the customer, another customer, the owner of the club and an admin      *)
(* update the bookings, with and without a status, with and without notes  *)

NotesUpdateDtos ==
    [ status : { NoStatus, Confirmed, CancelledByCustomer },
      notes : { NoNotes, "see you", "" } ]

NextNotes ==
    \/ CreateBookingBy({ "u1" }, SagaDtos, MaxBookings)
    \/ UpdateBookingWith(Users, NotesUpdateDtos)
    \/ Respond

SpecNotes == Init /\ [][NextNotes]_vars

\* C23: updateBooking on a booking that exists, with neither a status nor
\* notes in the request, fails with BadRequest for every caller, leaves the
\* collection as it was and emits no event
C23_EmptyUpdateIsBadRequestAndChangesNothing ==
    last = NoCall =>
        \A id \in Ids, currentUser \in Users :
            LET out == UpdateOutcome(bookings, id, [ status |-> NoStatus, notes |-> NoNotes ],
                                     currentUser, now)
            IN  /\ out.err.kind = "BadRequest"
                /\ out.store = bookings
                /\ out.events = <<>>

\* an empty update of a stored booking has been refused
C23_Witness ==
    /\ last.op = "updateBooking"
    /\ last.booking \in Ids
    /\ last.err = ErrNoUpdateData

\* C24: updateBooking with notes and no status succeeds for the customer of
\* the booking, the owner of its club and an admin, and fails with Forbidden,
\* the collection unchanged, for every other caller; when it succeeds the
\* notes of the booking are the notes of the request and the status and
\* every other field of every booking are as they were
C24_NotesOnlyUpdateChangesOnlyNotes ==
    last = NoCall =>
        \A id \in Ids, currentUser \in Users, notes \in { "see you", "" } :
            LET out == UpdateOutcome(bookings, id, [ status |-> NoStatus, notes |-> notes ],
                                     currentUser, now)
            IN  IF ActorRoles(currentUser, bookings[id]) # {}
                THEN /\ out.err = NoError
                     /\ out.store = [ bookings EXCEPT ![id].notes = notes ]
                ELSE /\ out.err.kind = "Forbidden"
                     /\ out.store = bookings

\* the owner of the club has put notes on a pending booking of a customer,
\* which is still pending
C24_Witness ==
    /\ last.op = "updateBooking"
    /\ last.err = NoError
    /\ last.status = NoStatus
    /\ last.user = "o1"
    /\ bookings[last.booking].notes = "see you"
    /\ bookings[last.booking].status = Pending

-----------------------------------------------------------------------------
(* The fields a status transition leaves alone *)

\* the fields of a booking other than its status and its notes
FrameOf(doc) ==
    [ paymentStatus |-> doc.paymentStatus, customer |-> doc.customer, club |-> doc.club,
      service |-> doc.service, bookingDate |-> doc.bookingDate,
      startTime |-> doc.startTime, endTime |-> doc.endTime,
      durationHours |-> doc.durationHours, totalPrice |-> doc.totalPrice,
      rescheduleOf |-> doc.rescheduleOf ]

\* C25: no step of updateBooking, of requestReschedule (the hold and the
\* rollback of the original), of the acceptance or rejection of a proposal
\* (the proposal and its original) or of the expiry sweep changes the
\* paymentStatus, customer, club, service, bookingDate, startTime, endTime,
\* durationHours, totalPrice or rescheduleOf of a stored booking
C25_StatusTransitionsKeepTheOtherFields ==
    [][ /\ Len(bookings') >= Len(bookings)
        /\ \A i \in Ids : FrameOf(bookings'[i]) = FrameOf(bookings[i]) ]_vars

\* a proposal has been accepted: it is confirmed, its original is cancelled
\* as rescheduled, and both are of the customer and unpaid as before
C25_Witness ==
    /\ last.op = "updateBooking"
    /\ last.err = NoError
    /\ last.status = Confirmed
    /\ last.booking \in Ids
    /\ bookings[last.booking].rescheduleOf \in Ids
    /\ bookings[last.booking].status = Confirmed
    /\ bookings[bookings[last.booking].rescheduleOf].status = CancelledRescheduled
    /\ bookings[bookings[last.booking].rescheduleOf].paymentStatus = "pending"
    /\ bookings[bookings[last.booking].rescheduleOf].customer
           = bookings[last.booking].customer

-----------------------------------------------------------------------------
(* The notification consumer: NotificationService listens to               *)
(* booking.created and booking.status_updated; a customer books slots of   *)
(* s1 on the Monday, the customer and the owner of the club update them    *)

ErrConsumer == Err("Error", "notification consumer failed")

\* emit with a listener that is not an async function: its exception comes
\* out of emit, after the write
EmitListenerThrows(out, consumerFails) ==
    IF out.events # <<>> /\ consumerFails THEN [ out EXCEPT !.err = ErrConsumer ] ELSE out

\* lines 214 and 394, this.eventEmitter.emit(...): the listeners are async
\* functions (handleBookingCreatedEvent, handleBookingStatusUpdatedEvent), so
\* a failure in one is the rejection of the promise it returns, which emit
\* does not wait for
Emit(out, consumerFails) == out

\* the outcome of the call and whether a consumer of its event failed
Notified(call, out, consumerFails) ==
    call @@ [ consumerFailed |-> out.events # <<>> /\ consumerFails ]

\* createBooking with the consumer of booking.created failing or not
CreateBookingNotified ==
    /\ last = NoCall
    /\ \E customerId \in { "u1" }, dto \in SagaDtos, consumerFails \in BOOLEAN :
        LET written == CreateOutcome(bookings, customerId, dto, Pending, now)
            out == Emit(written, consumerFails)
        IN  /\ Len(out.store) <= MaxBookings
            /\ bookings' = out.store
            /\ last' = Notified(Call("createBooking", out.id, out, customerId, Pending),
                                out, consumerFails)
    /\ UNCHANGED <<now, calls>>

\* updateBooking with the consumer of booking.status_updated failing or not
UpdateBookingNotified ==
    /\ last = NoCall
    /\ \E currentUser \in { "u1", "o1" }, id \in 1..(Len(bookings) + 1), dto \in UpdateDtos,
          consumerFails \in BOOLEAN :
        LET written == UpdateOutcome(bookings, id, dto, currentUser, now)
            out == Emit(written, consumerFails)
        IN  /\ bookings' = out.store
            /\ last' = Notified(Call("updateBooking", id, out, currentUser, dto.status),
                                out, consumerFails)
    /\ UNCHANGED <<now, calls>>

NextNotified ==
    \/ CreateBookingNotified
    \/ UpdateBookingNotified
    \/ Respond

SpecNotified == Init /\ [][NextNotified]_vars

-----------------------------------------------------------------------------
(* rescheduleOf: a customer books slots of s1 on the Monday, with and      *)
(* without a rescheduleOf of the customer's own choosing in the request,   *)
(* and asks to reschedule; the owner of the club decides                   *)

\* an _id that is well formed and that no stored booking has
UnknownBooking == MaxBookings + 1

\* the body of POST /bookings: rescheduleOf is optional and unchecked
\* (CreateBookingDto)
ReferringDtos ==
    { [ dto EXCEPT !.rescheduleOf = ref ] :
        dto \in SagaDtos, ref \in { NoBooking, 1, UnknownBooking } }

NextReferring ==
    \/ CreateBookingBy({ "u1" }, ReferringDtos, MaxBookings)
    \/ RequestRescheduleBy({ "u1" }, MaxBookings)
    \/ UpdateBookingBy({ "o1" })
    \/ Respond

SpecReferring == Init /\ [][NextReferring]_vars

\* C27: the rescheduleOf of every stored booking that has one is the _id of
\* a stored booking, whether the booking came from requestReschedule or from
\* createBooking with a rescheduleOf in the request
C27_RescheduleOfReferencesAStoredBooking ==
    \A i \in Ids :
        bookings[i].rescheduleOf # NoBooking => bookings[i].rescheduleOf \in Ids

-----------------------------------------------------------------------------
(* requestReschedule calls that interleave: a customer books a slot of s1  *)
(* on the Monday and asks twice, in two requests in flight together, to    *)
(* move it                                                                 *)

RaceDtos ==
    { dto \in SagaDtos :
        << dto.startTime, dto.endTime >>
            \in { << <<9, 30>>, <<10, 0>> >>, << <<10, 0>>, <<10, 30>> >>,
                  << <<10, 30>>, <<10, 0>> >> } }

NextSagaRace ==
    \/ CreateBookingBy({ "u1" }, RaceDtos, 1)
    \/ Respond
    \/ \E p \in 1..MaxCalls :
        \/ FindOriginalWith(p, { "u1" }, RaceDtos)
        \/ HoldOriginal(p)
        \/ CreateProposed(p)
        \/ RollbackOriginal(p)
        \/ ReturnReschedule(p)

SpecSagaRace == Init /\ [][NextSagaRace]_vars

\* the proposals of a reschedule of booking o that wait for a decision
PendingProposalsOf(o) ==
    { p \in Ids : bookings[p].rescheduleOf = o /\ bookings[p].status = ReschedulePending }

\* C28: no booking has more than one ReschedulePending proposal at a time: a
\* second requestReschedule on an original whose proposal is pending is
\* refused, whether the two calls come one after the other or together
C28_AtMostOnePendingProposalPerOriginal ==
    \A o \in Ids : Cardinality(PendingProposalsOf(o)) <= 1

-----------------------------------------------------------------------------
(* The shape of a stored booking *)

\* the minutes from the startTime to the endTime of a booking
MinutesBooked(doc) == MinutesOf(doc.endTime) - MinutesOf(doc.startTime)

\* the booking that the createBooking or requestReschedule that has just
\* succeeded inserted
JustCreated == bookings[Len(bookings)]

-----------------------------------------------------------------------------
(* The status of a booking: a customer books slots of s1 on the Monday and *)
(* asks to reschedule them; the customer, the owner of the club and an     *)
(* admin ask for every status and for a value that is no status; the sweep *)
(* runs and time passes                                                    *)

\* a value of the status field of a request that BookingStatus does not
\* have (no ValidationPipe applies UpdateBookingDto's @IsEnum)
Archived == "archived"

AnyStatusDtos == [ status : BookingStatus \cup { NoStatus, Archived }, notes : NotesInputs ]

NextStatuses ==
    \/ CreateBookingBy({ "u1" }, SagaDtos, MaxBookings)
    \/ RequestRescheduleBy({ "u1" }, MaxBookings)
    \/ UpdateBookingWith(Callers, AnyStatusDtos)
    \/ ExpirePastBookings
    \/ Tick
    \/ Respond

SpecStatuses == Init /\ [][NextStatuses]_vars

\* the eleven states of the lifecycle
LifecycleStates ==
    { Pending, Confirmed, CancelledByCustomer, CancelledByClub, Completed, NoShow, Rejected,
      Expired, ReschedulePending, RescheduleRequested, CancelledRescheduled }

\* a request of the admin for each status of the set puts each stored
\* booking in that status (Expired once the booking has ended)
EachCanBeRequested(statuses) ==
    last = NoCall =>
        \A id \in Ids, status \in statuses :
            status # Expired \/ IsExpireBooking(bookings, id, now)
                => LET out == UpdateOutcome(bookings, id,
                                            [ status |-> status, notes |-> NoNotes ], "adm", now)
                   IN  /\ out.err = NoError
                       /\ out.store[id].status = status

-----------------------------------------------------------------------------
(* The bookings of a club: GET /bookings/club/:clubId                      *)

ErrRolesGuard == Err("Forbidden", "roles guard")
ErrClubNotFound == Err("NotFound", "club not found")
ErrNotClubOwner == Err("Forbidden", "not authorized for this club")

\* the clubs findClubById finds
Clubs == { "k1", "k2" }

\* the club ids of the requests: the two clubs and the id of no club
ClubIds == Clubs \cup { "kGone" }

\* @Roles(Role.Owner, Role.Admin) on the handler, read by RolesGuard before
\* the class's @Roles(Role.User)
ClubListingRoles == { RoleOwner, RoleAdmin }

\* the route and getBookingsForClubByOwner(clubId, currentUser), with no
\* status filter, limit or skip: the error and the _ids of the bookings found
GetBookingsForClubOutcome(store, clubId, currentUser) ==
    LET failed(e) == [ err |-> e, found |-> {} ]
        isOwner == OwnerOf(clubId) = currentUser
    IN  IF RolesOf(currentUser) \cap ClubListingRoles = {} THEN failed(ErrRolesGuard)
        ELSE IF clubId \notin Clubs THEN failed(ErrClubNotFound)
        ELSE IF ~isOwner THEN failed(ErrNotClubOwner)
        ELSE [ err |-> NoError,
               found |-> { i \in 1..Len(store) : store[i].club = clubId } ]

\* GET /bookings/club/:clubId: it writes nothing
GetBookingsForClub ==
    /\ last = NoCall
    /\ \E currentUser \in Users, clubId \in ClubIds :
        LET out == GetBookingsForClubOutcome(bookings, clubId, currentUser)
        IN  last' = [ op |-> "getBookingsForClubByOwner", booking |-> NoBooking,
                      err |-> out.err, events |-> <<>>, caller |-> currentUser,
                      club |-> clubId, found |-> out.found ]
    /\ UNCHANGED <<bookings, now, calls>>

NextClubListing ==
    \/ CreateBookingBy({ "u1" }, CreateDtos, MaxBookings)
    \/ GetBookingsForClub
    \/ Respond

SpecClubListing == Init /\ [][NextClubListing]_vars

\* C31: the listing of the bookings of a club is returned, all the bookings
\* of the club and no other, when the caller is the owner of the club or an
\* admin, and fails with Forbidden for every other caller
C31_ClubListingForOwnerOrAdminOnly ==
    last.op = "getBookingsForClubByOwner" /\ last.club \in Clubs
        => IF OwnerOf(last.club) = last.caller \/ RoleAdmin \in RolesOf(last.caller)
           THEN /\ last.err = NoError
                /\ last.found = { i \in Ids : bookings[i].club = last.club }
           ELSE last.err.kind = "Forbidden"

-----------------------------------------------------------------------------
(* requestReschedule: the checks on the original *)

\* C32: requestReschedule fails and leaves every booking as it was when the
\* original does not exist (NotFound), else when the caller is not the
\* customer of the original (Forbidden), else when the status of the
\* original is neither Pending nor Confirmed (BadRequest); a booking in
\* ReschedulePending or RescheduleRequested is among the last
C32_RescheduleRefusedInOrderAndNothingChanges ==
    last = NoCall =>
        \A id \in 1..(Len(bookings) + 1), currentUser \in Users, dto \in SagaDtos :
            LET out == RescheduleOutcome(bookings, id, dto, currentUser, now)
                refused(kind) == out.err.kind = kind /\ out.store = bookings
            IN  IF id \notin Ids THEN refused("NotFound")
                ELSE IF bookings[id].customer # currentUser THEN refused("Forbidden")
                ELSE bookings[id].status \notin { Pending, Confirmed }
                        => refused("BadRequest")

\* the customer of a proposal that waits for a decision has asked to
\* reschedule the proposal and has been refused
C32_Witness ==
    /\ last.op = "requestReschedule"
    /\ last.err = ErrNotReschedulable
    /\ last.booking \in Ids
    /\ bookings[last.booking].status = ReschedulePending
    /\ bookings[last.booking].rescheduleOf \in Ids
    /\ bookings[bookings[last.booking].rescheduleOf].status = RescheduleRequested

-----------------------------------------------------------------------------
(* updateBooking calls that interleave: a customer books a slot of s1 on   *)
(* the Monday; the customer and the owner of the club update the booking   *)
(* in requests in flight together, each cut between its read of the        *)
(* booking (line 287) and its writes; the sweep runs and time passes       *)

\* the statuses asked for: a cancellation by the customer, and the owner's
\* confirmation, cancellation and completion
RaceUpdateDtos ==
    [ status : { Confirmed, CancelledByCustomer, CancelledByClub, Completed },
      notes : NotesInputs ]

\* lines 287-292: findById; the document as it is now is what the call
\* goes on with
ReadBooking(p) ==
    /\ last = NoCall
    /\ calls[p].pc = "idle"
    /\ \E currentUser \in { "u1", "o1" }, id \in Ids, dto \in RaceUpdateDtos :
        calls' = [ calls EXCEPT ![p] =
                     [ pc |-> "write", user |-> currentUser, id |-> id, dto |-> dto,
                       booking |-> bookings[id], err |-> NoError ] ]
    /\ UNCHANGED <<bookings, now, last>>

\* lines 301-389 on the document read at line 287: save writes the paths the
\* call assigned (status, notes) and leaves the others as they are stored
WriteBooking(p) ==
    /\ calls[p].pc = "write"
    /\ LET id == calls[p].id
           read == calls[p].booking
           out == UpdateOutcome([ bookings EXCEPT ![id] = read ], id, calls[p].dto,
                                calls[p].user, now)
           assigned == out.store[id]
       IN  /\ bookings' =
                 [ out.store EXCEPT ![id] =
                     [ bookings[id] EXCEPT
                         !.status = IF assigned.status # read.status
                                    THEN assigned.status ELSE @,
                         !.notes = IF assigned.notes # read.notes
                                   THEN assigned.notes ELSE @ ] ]
           /\ calls' = [ calls EXCEPT ![p].pc = "done", ![p].err = out.err ]
    /\ UNCHANGED <<now, last>>

\* the booking, or the exception, reaches the caller
ReturnUpdate(p) ==
    /\ calls[p].pc = "done"
    /\ calls' = [ calls EXCEPT ![p] = [ pc |-> "idle" ] ]
    /\ UNCHANGED <<bookings, now, last>>

\* the slot booked: s1 on the Monday from 09:30 to 10:00, over by the
\* second instant of the clock
EarlySlotDtos ==
    { dto \in SagaDtos : dto.startTime = <<9, 30>> /\ dto.endTime = <<10, 0>> }

NextUpdateRace ==
    \/ CreateBookingBy({ "u1" }, EarlySlotDtos, 1)
    \/ ExpirePastBookings
    \/ Tick
    \/ Respond
    \/ \E p \in 1..MaxCalls :
        \/ ReadBooking(p)
        \/ WriteBooking(p)
        \/ ReturnUpdate(p)

SpecUpdateRace == Init /\ [][NextUpdateRace]_vars

\* a write of status `to` over the stored status `from` is a transition
\* that a customer or an owner may ask for, or the sweep's
PermittedWrite(from, to) ==
    \/ PermittedRow({ "Customer" }, from, to, FALSE)
    \/ PermittedRow({ "Owner" }, from, to, FALSE)
    \/ from \in { Pending, Confirmed } /\ to = Expired

\* C33: when updateBooking calls on one booking, or an updateBooking and the
\* expiry sweep, interleave at their reads and writes, every status written
\* is a permitted transition from the status stored just before the write;
\* no request of a customer or an owner moves a booking out of a terminal
\* status
C33_EveryWriteIsAPermittedTransition ==
    [][ \A i \in Ids :
            bookings'[i].status # bookings[i].status
                => /\ PermittedWrite(bookings[i].status, bookings'[i].status)
                   /\ bookings[i].status \notin TerminalStatuses ]_vars

-----------------------------------------------------------------------------
(* The event of a status update *)

\* C34: updateBooking emits booking.status_updated exactly when the call
\* has changed the stored status of the booking, and the event carries the
\* status now stored; an update that leaves the status as it was (notes
\* only, or a requested status equal to the current one) emits nothing
C34_EventExactlyWhenStatusChanged ==
    last = NoCall =>
        \A id \in Ids, currentUser \in Users, dto \in NotesUpdateDtos :
            LET out == UpdateOutcome(bookings, id, dto, currentUser, now)
                changed == out.store[id].status # bookings[id].status
            IN  /\ out.events # <<>> <=> out.err = NoError /\ changed
                /\ out.events # <<>> =>
                     /\ Len(out.events) = 1
                     /\ out.events[1].name = "booking.status_updated"
                     /\ out.events[1].status = out.store[id].status

-----------------------------------------------------------------------------
(* A reschedule to another club: a customer books a slot of s1 (club k1)   *)
(* on the Monday and asks to move it to s2 (club k2) on the Tuesday; the   *)
(* owners of the two clubs update the bookings                             *)

\* the new slots asked for: slots of s2 on the Tuesday
OtherClubDtos == { dto \in CreateDtos : dto.serviceId = "s2" /\ dto.bookingDate = 1 }

ClubOwners == { "o1", "o2" }

NextOtherClub ==
    \/ CreateBookingBy({ "u1" }, EarlySlotDtos, 1)
    \/ RequestRescheduleWith({ "u1" }, OtherClubDtos, MaxBookings)
    \/ UpdateBookingWith(ClubOwners, UpdateDtos)
    \/ Respond

SpecOtherClub == Init /\ [][NextOtherClub]_vars

\* C35: the status of a booking changes only in a call made by the customer
\* of the booking, by the owner of the club of the booking or by an admin,
\* or in the expiry sweep; the owner of another club never causes a change,
\* also not by accepting or rejecting a proposal that references the booking
C35_StatusChangedOnlyByItsOwnActors ==
    [][ \A i \in Ids :
            bookings'[i].status # bookings[i].status
                => \/ last'.op = "expirePastBookings"
                   \/ last'.user = bookings[i].customer
                   \/ last'.user = OwnerOf(bookings[i].club)
                   \/ RoleAdmin \in RolesOf(last'.user) ]_vars

-----------------------------------------------------------------------------
(* The hold and its proposal: a customer books slots of s1 on the Monday   *)
(* and asks to reschedule them, the customer and the owner of the club     *)
(* update the bookings, the sweep runs and time passes; no admin           *)

NextHold ==
    \/ CreateBookingBy({ "u1" }, SagaDtos, MaxBookings)
    \/ RequestRescheduleBy({ "u1" }, MaxBookings)
    \/ UpdateBookingBy({ "u1", "o1" })
    \/ ExpirePastBookings
    \/ Tick
    \/ Respond

SpecHold == Init /\ [][NextHold]_vars

\* C36: a booking is RescheduleRequested only while a booking whose
\* rescheduleOf it is waits as ReschedulePending: once the proposal has been
\* accepted, rejected or expired, the original is no longer on hold
C36_OnHoldOnlyWhileAProposalIsPending ==
    \A o \in Ids :
        bookings[o].status = RescheduleRequested => PendingProposalsOf(o) # {}

-----------------------------------------------------------------------------
(* The slots getAvailableSlots returns, asked of createBooking *)

\* the services of the catalogue that take bookings, as findById returns
\* them: s1 and s2, and sHour whose hours (09:00-10:30) are not a whole
\* number of its 60-minute slots
BookableServices ==
    { [ id |-> id, doc |-> FindServiceById(id) ] : id \in { "s1", "s2", "sHour" } }

\* getAvailableSlots(serviceId, dateString) on a service of the catalogue
GetAvailableSlotsOfCatalogue ==
    /\ last = NoCall
    /\ \E service \in BookableServices, dateString \in Dates :
        LET out == GetAvailableSlotsOutcome(bookings, service.id, service.doc, dateString)
        IN  last' = [ op |-> "getAvailableSlots", booking |-> NoBooking, err |-> out.err,
                      events |-> <<>>, serviceId |-> service.id, service |-> service.doc,
                      dateString |-> dateString, slots |-> out.slots ]
    /\ UNCHANGED <<bookings, now, calls>>

NextBookable ==
    \/ CreateBookingBy({ "u1" }, SlotDtos, MaxBookings)
    \/ UpdateBookingBy({ "o1" })
    \/ GetAvailableSlotsOfCatalogue
    \/ Tick
    \/ Respond

SpecBookable == Init /\ [][NextBookable]_vars

\* the request for one returned slot: its start and end as displayed
SlotRequest(serviceId, dateString, displaySlot) ==
    Dto(serviceId, dateString, displaySlot, NoNotes, NoBooking)

\* createBooking of the slot, on the collection as it is, succeeds
CanBeBooked(serviceId, dateString, displaySlot) ==
    CreateOutcome(bookings, "u1", SlotRequest(serviceId, dateString, displaySlot),
                  Pending, now).err = NoError

\* every slot of the service on that date starts after the present instant
EverySlotStartsInTheFuture(service, dateString) ==
    MomentTz(dateString, service.openingTime) > now

\* C37: when getAvailableSlots has just returned the slots of an active
\* service for a date on which every slot starts in the future, a
\* createBooking for the start and end of any returned slot, made on the
\* collection as it is, succeeds
C37_EveryReturnedSlotCanBeBooked ==
    ( /\ last.op = "getAvailableSlots"
      /\ last.err = NoError
      /\ last.service.isActive
      /\ EverySlotStartsInTheFuture(last.service, last.dateString) )
    => \A k \in 1..Len(last.slots) :
          CanBeBooked(last.serviceId, last.dateString, last.slots[k])

\* the same for the service whose hours are a whole number of slots of at
\* least half an hour (s1)
C37_ReturnedSlotsOfWholeHalfHoursCanBeBooked ==
    ( /\ last.op = "getAvailableSlots"
      /\ last.err = NoError
      /\ last.serviceId = "s1"
      /\ EverySlotStartsInTheFuture(last.service, last.dateString) )
    => \A k \in 1..Len(last.slots) :
          CanBeBooked(last.serviceId, last.dateString, last.slots[k])

\* a slot cut at the closing time is returned and createBooking refuses it
\* for its length
C37_CutSlotRefused ==
    /\ last.op = "getAvailableSlots"
    /\ last.serviceId = "sHour"
    /\ EverySlotStartsInTheFuture(last.service, last.dateString)
    /\ \E k \in 1..Len(last.slots) :
          CreateOutcome(bookings, "u1",
                        SlotRequest(last.serviceId, last.dateString, last.slots[k]),
                        Pending, now).err = ErrDuration

\* a slot shorter than half an hour is returned and the schema refuses it
C37_ShortSlotRefused ==
    /\ last.op = "getAvailableSlots"
    /\ last.serviceId = "s2"
    /\ EverySlotStartsInTheFuture(last.service, last.dateString)
    /\ \E k \in 1..Len(last.slots) :
          CreateOutcome(bookings, "u1",
                        SlotRequest(last.serviceId, last.dateString, last.slots[k]),
                        Pending, now).err = ErrValidation

-----------------------------------------------------------------------------
(* updateBooking when a write to the Booking collection fails *)

\* where a write throws ErrStorage during the call (nothing in updateBooking
\* catches it): nowhere, in the
\* findByIdAndUpdate of the original (lines 338, 348), or in booking.save()
\* (line 389)
StorageFailures == { "none", "findByIdAndUpdate", "save" }

\* updateBooking with the storage failing at `fails`: a failing
\* findByIdAndUpdate leaves the collection as it was; a failing save leaves
\* what was written before it, the original of an accepted or rejected
\* proposal
UpdateOutcomeStorage(store, bookingId, dto, currentUser, t, fails) ==
    LET out == UpdateOutcome(store, bookingId, dto, currentUser, t)
        \* the collection without the save of the booking itself
        written == [ out.store EXCEPT ![bookingId] = store[bookingId] ]
    IN  IF out.err # NoError \/ fails = "none" THEN out
        ELSE IF fails = "findByIdAndUpdate"
        THEN IF written # store
             THEN [ err |-> ErrStorage, store |-> store, events |-> <<>> ]
             ELSE out
        ELSE [ err |-> ErrStorage, store |-> written, events |-> <<>> ]

\* POST /bookings/:id with a storage that may fail
UpdateBookingStorage(users, dtos) ==
    /\ last = NoCall
    /\ \E currentUser \in users, id \in 1..(Len(bookings) + 1), dto \in dtos,
         fails \in StorageFailures :
        LET out == UpdateOutcomeStorage(bookings, id, dto, currentUser, now, fails)
        IN  /\ bookings' = out.store
            /\ last' = Call("updateBooking", id, out, currentUser, dto.status)
    /\ UNCHANGED <<now, calls>>

NextStorage ==
    \/ CreateBookingBy({ "u1" }, SagaDtos, MaxBookings)
    \/ RequestRescheduleBy({ "u1" }, MaxBookings)
    \/ UpdateBookingStorage({ "u1", "o1" }, UpdateDtos)
    \/ Respond

SpecStorage == Init /\ [][NextStorage]_vars

\* C38: an updateBooking that returns an error has modified no booking
\* record: the collection after the call is the collection before it, the
\* original of a proposal that was being accepted or rejected included
C38_FailedUpdateModifiesNothing ==
    [][ (last'.op = "updateBooking" /\ last'.err # NoError) => bookings' = bookings ]_vars

\* the same for the errors updateBooking throws itself (not found, forbidden,
\* no data, validation), the storage set aside
C38_RefusedUpdateModifiesNothing ==
    [][ (last'.op = "updateBooking" /\ last'.err \notin { NoError, ErrStorage })
            => bookings' = bookings ]_vars

\* a save has failed after the original of the proposal was written
C38_OriginalWrittenThenSaveFailed ==
    /\ last.op = "updateBooking"
    /\ last.err = ErrStorage
    /\ bookings[last.booking].status = ReschedulePending
    /\ bookings[last.booking].rescheduleOf # NoBooking
    /\ bookings[bookings[last.booking].rescheduleOf].status
          \in { CancelledRescheduled, Confirmed }

-----------------------------------------------------------------------------
(* The rollback of requestReschedule among other requests: between its     *)
(* awaits other customers book, the owner and an admin update, time passes *)

\* the statuses the owner and the admin ask for meanwhile
RollbackUpdateDtos == [ status : { CancelledByClub, Expired }, notes : NotesInputs ]

NextRollback ==
    \/ CreateBookingBy({ "u1", "u2" }, RaceDtos, MaxBookings)
    \/ UpdateBookingWith({ "o1", "adm" }, RollbackUpdateDtos)
    \/ Tick
    \/ Respond
    \/ \E p \in 1..MaxSagaCalls :
        \/ FindOriginalWith(p, { "u1" }, RaceDtos)
        \/ HoldOriginal(p)
        \/ CreateProposed(p)
        \/ RollbackOriginal(p)
        \/ ReturnReschedule(p)

SpecRollback == Init /\ [][NextRollback]_vars

\* this step is the save of the rollback of call p (line 263), and it wrote
RollbackWrote(p) ==
    /\ calls[p].pc = "rollback"
    /\ calls'[p].pc = "done"
    /\ ~calls'[p].rollbackFailed

\* the rollback of call p found the original as the hold left it
RollbackFromHold(p) ==
    bookings[calls[p].original].status = RescheduleRequested

\* after the rollback of call p the original, if active again, shares its
\* slot with no other active booking
RollbackNotOverATakenSlot(p) ==
    Active(bookings'[calls[p].original])
        => \A i \in 1..Len(bookings') :
              ( i # calls[p].original /\ Active(bookings'[i]) )
                  => ~DocsIntersect(bookings'[i], bookings'[calls[p].original])

\* C39: when requestReschedule interleaves with other requests, the write of
\* its rollback finds the original RescheduleRequested, so it overwrites no
\* status another request wrote after the hold, and it leaves the original
\* Pending or Confirmed only on a slot no other Pending or Confirmed booking
\* has taken meanwhile
C39_RollbackOnlyUndoesTheHold ==
    [][ \A p \in 1..MaxSagaCalls :
            RollbackWrote(p) => RollbackFromHold(p) /\ RollbackNotOverATakenSlot(p) ]_vars

\* the first half alone: the rollback overwrites only RescheduleRequested
C39_RollbackOverwritesOnlyTheHold ==
    [][ \A p \in 1..MaxSagaCalls : RollbackWrote(p) => RollbackFromHold(p) ]_vars

\* the second half alone: the rollback restores no double booking
C39_RollbackRestoresNoDoubleBooking ==
    [][ \A p \in 1..MaxSagaCalls : RollbackWrote(p) => RollbackNotOverATakenSlot(p) ]_vars

====
